---- MODULE Spec2Model ----
(***************************************************************************)
(* A model of the simulation core of the platformer: the danger-zone       *)
(* computation of constraint_rects.py, the damage interface of player.py,  *)
(* enemies.py, fiercetooth.py, seashell_pearl.py and pink_star.py, the     *)
(* projectiles of objects.py and the per-tick ordering of main.py.         *)
(***************************************************************************)
EXTENDS Integers, Sequences, FiniteSets, TLC

(***************************************************************************)
(* Constants of constants.py (imported by every module of the program).    *)
(***************************************************************************)
TILE_SIZE == 40
FPS == 60

\* tile numbers of the constraint rectangles (ConstraintRect.__init__)
RED_TILE == 25
PURPLE_TILE == 26
ORANGE_TILE == 29

(***************************************************************************)
(* Bounds of the level data the danger-zone model draws from.              *)
(***************************************************************************)
GridCols == 3
GridRows == 3
MaxOrange == 5

VARIABLES
    constraint_rect_group,  \* World.constraint_rect_group: set of ConstraintRect
    danger_zones,           \* World.danger_zones: result of compute_danger_zones
    world_loaded,           \* whether World.process_data has run
    screens,                \* main(): main_menu, instructions_page, ... flags
    pc,                     \* position inside one iteration of main()'s loop
    idx,                    \* index of the projectile a group loop has reached
    tick,                   \* simulation ticks played so far (model counter)
    player,                 \* the Player object
    enemies,                \* the enemy objects of start_level's `enemies` list
    player_ammo_group,      \* PurpleGems in flight
    player_grenade_group,   \* Grenades
    cannon_ball_group,      \* CannonBalls
    pearl_group,            \* Pearls
    health_gems,            \* health gems left in collectible_gem_group
    level_info,             \* Level object: killed_enemy_ids (or absent)
    progress,               \* the LevelProgress row of the selected level
    calls,                  \* get_hit calls made by the last step (history)
    choices,                \* inputs other than "nothing happens" drawn so far
    search,                 \* the locals of one PinkStar.astar_pathfinding call
    body,                   \* one moving body: position, rect, velocity, flags
    view,                   \* one check_vision_cone call: what it is given and
                            \* what it returns
    tooth                   \* one FierceTooth with the player around it: the
                            \* fields its update and handle_movement steer by

\* the variables the game loop never touches
auxVars == <<search, body, view, tooth>>

zoneVars == <<constraint_rect_group, danger_zones, world_loaded>>

(***************************************************************************)
(* pygame.Rect as a record; right = x + w, bottom = y + h.                 *)
(***************************************************************************)
Rect(x, y, w, h) == [x |-> x, y |-> y, w |-> w, h |-> h]
RectRight(r) == r.x + r.w
RectBottom(r) == r.y + r.h

Abs(n) == IF n < 0 THEN -n ELSE n

\* pygame.Rect.colliderect: the interiors overlap
colliderect(a, b) ==
    /\ a.x < RectRight(b) /\ b.x < RectRight(a)
    /\ a.y < RectBottom(b) /\ b.y < RectBottom(a)

SetMin(S) == CHOOSE m \in S : \A n \in S : m <= n
SetMax(S) == CHOOSE m \in S : \A n \in S : m >= n

\* ConstraintRect.__init__: the colour follows the tile number
Colour(tile_number) ==
    IF tile_number = RED_TILE THEN "RED"
    ELSE IF tile_number = PURPLE_TILE THEN "PURPLE"
    ELSE IF tile_number = ORANGE_TILE THEN "ORANGE"
    ELSE "None"

ConstraintRect(x, y, width, height, tile_number) ==
    [colour |-> Colour(tile_number), rect |-> Rect(x, y, width, height)]

\* the bounding rectangle of the orange markers (constraint_rects.py line 70)
BigRect(orange_rects) ==
    LET xs == {r.rect.x : r \in orange_rects}
        ys == {r.rect.y : r \in orange_rects}
        rights == {RectRight(r.rect) : r \in orange_rects}
        bottoms == {RectBottom(r.rect) : r \in orange_rects}
    IN  Rect(SetMin(xs), SetMin(ys), SetMax(rights) - SetMin(xs),
             SetMax(bottoms) - SetMin(ys))

\* corners taken at the right and bottom edges of the bounding rectangle
\* instead of at the toplefts of the corner tiles
ExpectedCornersMissingTile(big) ==
    { <<big.x, big.y>>,
      <<RectRight(big), big.y>>,
      <<big.x, RectBottom(big)>>,
      <<RectRight(big), RectBottom(big)>> }

\* the four toplefts at which a marker is expected (lines 72-77)
ExpectedCorners(big) ==
    { <<big.x, big.y>>,
      <<RectRight(big) - TILE_SIZE, big.y>>,
      <<big.x, RectBottom(big) - TILE_SIZE>>,
      <<RectRight(big) - TILE_SIZE, RectBottom(big) - TILE_SIZE>> }

\* lines 79-83: every expected corner has an orange rect within 1px
CornersValidated(orange_rects, big) ==
    \A c \in ExpectedCorners(big) :
        \E r \in orange_rects :
            Abs(r.rect.x - c[1]) <= 1 /\ Abs(r.rect.y - c[2]) <= 1

compute_danger_zones(constraint_group) ==
    LET orange_rects == {r \in constraint_group : r.colour = "ORANGE"}
    IN  IF orange_rects = {}
        THEN << >>
        ELSE LET big == BigRect(orange_rects)
             IN  << <<big, CornersValidated(orange_rects, big)>> >>

(***************************************************************************)
(* World.process_data, restricted to the constraint tiles of the level     *)
(* data: a tile 25, 26 or 29 at column x, row y becomes a ConstraintRect   *)
(* of TILE_SIZE x TILE_SIZE at (x * TILE_SIZE, y * TILE_SIZE); after the   *)
(* scan the danger zones are computed once.                                *)
(***************************************************************************)
Cells == (0 .. GridCols - 1) \X (0 .. GridRows - 1)

\* level data: the cells holding an orange tile, and at most one cell
\* holding a red or purple tile
LevelData ==
    { [orange |-> o, other |-> t] :
        o \in {s \in SUBSET Cells : Cardinality(s) <= MaxOrange},
        t \in {<< >>} \cup { <<c, n>> : c \in Cells, n \in {RED_TILE, PURPLE_TILE} } }

TilesOf(data) ==
    { <<c, ORANGE_TILE>> : c \in data.orange }
        \cup (IF data.other = << >> \/ data.other[1] \in data.orange
              THEN {} ELSE {data.other})

process_data(data) ==
    /\ ~world_loaded
    /\ LET group == { ConstraintRect(t[1][1] * TILE_SIZE, t[1][2] * TILE_SIZE,
                                     TILE_SIZE, TILE_SIZE, t[2]) : t \in TilesOf(data) }
       IN  /\ constraint_rect_group' = group
           /\ danger_zones' = compute_danger_zones(group)
    /\ world_loaded' = TRUE

(***************************************************************************)
(* Combat state.  The three enemy species are kept in one function         *)
(* `enemies`, indexed by species, like the `enemies` list of start_level   *)
(* (one object per species, the level's lair).  Fields that only drive     *)
(* drawing (health_bar_timer, sprites, sounds) are left out.               *)
(***************************************************************************)
Species == {"ft", "ss", "ps"}

\* the order of the list `enemies` (main.py line 454)
SpeciesOrder == <<"ft", "ss", "ps">>

\* Player.__init__ (player.py line 92) and World.process_data (main.py)
PLAYER_HEALTH == 400
FT_HEALTH == 80
PS_HEALTH == 100
SS_HEALTH == 120
START_AMMO == 100
START_GRENADES == 50

start_health(k) ==
    IF k = "ft" THEN FT_HEALTH ELSE IF k = "ps" THEN PS_HEALTH ELSE SS_HEALTH

\* HIT_ANIM_DURATION of Player, FierceTooth, SeashellPearl and PinkStar
PLAYER_HIT_ANIM_DURATION == 120
HIT_ANIM_DURATION(k) == IF k = "ps" THEN 300 ELSE 120

\* x_vel of the constructor calls of World.process_data; "enemy" is the
\* Enemy that never walks (SeashellPearl is built with x_vel 0)
x_vel(kind) ==
    IF kind = "enemy" THEN 0 ELSE IF kind = "ft" THEN 2 ELSE 3

\* PinkStar.attack_range and PinkStar.path_update_interval
attack_range == 50
path_update_interval == 60

\* SeashellPearl.bite_animation_duration
bite_animation_duration == 30

\* Enemy.RECHECK_TURN_DURATION, and TURN_COOLDOWN of FierceTooth and
\* SeashellPearl
RECHECK_TURN_DURATION == 55
TURN_COOLDOWN == 15

\* SeashellPearl: vision_range, bite_range, the cooldowns fire() and a bite
\* set, and the reach of react_to_grenades
SS_VISION_RANGE == 400
bite_range == 40
FIRE_COOLDOWN == 32
BITE_COOLDOWN == 90
GRENADE_REACT_RANGE == 150
SS_VISION_ANGLE == 20
FT_VISION_RANGE == 350
FT_VISION_ANGLE == 40
FT_ATTACK_RANGE == 50
DODGE_COOLDOWN == 30

\* tan(10 degrees), half of vision_angle 20, in 10^-6
TAN_HALF_ANGLE == 176327

Turned(direction) == IF direction = "right" THEN "left" ELSE "right"

\* the cone test of SeashellPearl.check_vision_cone and react_to_grenades
\* on a target dx, dy from the rect centre: the angle of atan2(dy, dx)
\* lies within 10 degrees of the facing direction
InSeashellCone(direction, dx, dy) ==
    IF direction = "right"
    THEN \/ dx = 0 /\ dy = 0
         \/ dx > 0 /\ Abs(dy) * 1000000 <= dx * TAN_HALF_ANGLE
    ELSE dx < 0 /\ Abs(dy) * 1000000 <= (-dx) * TAN_HALF_ANGLE

\* player_is_behind of SeashellPearl.update
PlayerIsBehind(direction, dx) ==
    \/ direction = "right" /\ dx <= -10
    \/ direction = "left" /\ dx >= 10

\* attack_recovery_duration of FierceTooth and PinkStar
attack_recovery_duration(k) == IF k = "ps" THEN 350 ELSE 120

\* an attacker as get_hit sees it: its flags and the x of its rect centre
Attacker(kind, centerx) ==
    [is_enemy |-> kind \in Species, is_player |-> kind = "player",
     is_grenade |-> kind = "grenade", centerx |-> centerx]

\* Player.get_hit (player.py lines 260-273): no test of hit_anim_timer, no
\* clamp and no change of alive
PlayerGetHit(p, damage, attacker) ==
    [p EXCEPT !.health = @ - damage,
              !.hit_anim_timer =
                  IF attacker.is_enemy \/ attacker.is_grenade
                  THEN PLAYER_HIT_ANIM_DURATION ELSE @]

\* Player.check_alive (player.py lines 275-283)
PlayerCheckAlive(p) ==
    IF p.health <= 0 THEN [p EXCEPT !.health = 0, !.alive = FALSE] ELSE p

\* the turn towards the attacker of FierceTooth.get_hit and
\* SeashellPearl.get_hit (smartmode only)
FaceAttacker(e, attacker) ==
    LET dx == attacker.centerx - e.cx
    IN  IF e.smartmode /\ e.direction = "right" /\ dx < 0
        THEN [e EXCEPT !.direction = "left", !.was_hit_from_behind = TRUE]
        ELSE IF e.smartmode /\ e.direction = "left" /\ dx > 0
        THEN [e EXCEPT !.direction = "right", !.was_hit_from_behind = TRUE]
        ELSE e

\* a hit-stun that any attacker starts
StunsEnemyAlways(k, attacker) == TRUE

\* which attackers start the hit-stun of each species
StunsEnemy(k, attacker) ==
    IF k = "ps" THEN attacker.is_grenade
    ELSE attacker.is_player \/ attacker.is_grenade

\* get_hit of the enemies without the early return under hit-stun
EnemyGetHitNoGuard(k, e, damage, attacker) ==
    LET hit == [e EXCEPT !.health = @ - damage]
        faced == IF k = "ps" THEN hit ELSE FaceAttacker(hit, attacker)
    IN  IF StunsEnemy(k, attacker)
        THEN [faced EXCEPT !.hit_anim_timer = HIT_ANIM_DURATION(k)]
        ELSE faced

\* FierceTooth.get_hit (fiercetooth.py 501-528), SeashellPearl.get_hit
\* (seashell_pearl.py 237-264), PinkStar.get_hit (pink_star.py 514-531)
EnemyGetHit(k, e, damage, attacker) ==
    IF e.hit_anim_timer > 0
    THEN e
    ELSE LET hit == [e EXCEPT !.health = @ - damage]
             faced == IF k = "ps" THEN hit ELSE FaceAttacker(hit, attacker)
         IN  IF StunsEnemy(k, attacker)
             THEN [faced EXCEPT !.hit_anim_timer = HIT_ANIM_DURATION(k)]
             ELSE faced

\* Enemy.check_alive (enemies.py lines 222-229)
EnemyCheckAlive(e) ==
    IF e.health <= 0 THEN [e EXCEPT !.health = 0, !.alive = FALSE] ELSE e

Dec(n) == IF n > 0 THEN n - 1 ELSE n

(***************************************************************************)
(* Level data and level construction.  The level files are assets, so the  *)
(* places of the player and of the enemies are inputs of the model: a      *)
(* layout gives, for the player and each species, the centre of its rect.  *)
(* Movement is not modelled in this development: entities stay where the   *)
(* layout puts them, and contact between two entities is an input of the   *)
(* step in which the code tests it.                                        *)
(*                                                                         *)
(* A grenade thrown to the right from (96, 384) detonates around           *)
(* (430, 320); one thrown to the left from (696, 264) around (289, 320).   *)
(* The first layout puts the three enemies in the three damage bands of    *)
(* the first blast; the second puts one at the centre of the second blast, *)
(* one just inside its radius and one just outside.                        *)
(***************************************************************************)
BandsLayout ==
    [player |-> <<96, 384>>,
     ft |-> <<400, 336>>, ss |-> <<370, 376>>, ps |-> <<330, 256>>]

EdgeLayout ==
    [player |-> <<696, 264>>,
     ft |-> <<412, 320>>, ss |-> <<289, 320>>, ps |-> <<165, 320>>]

Layouts == {BandsLayout, EdgeLayout}

\* the health gems a level holds
NumHealthGems == 1

\* Player.__init__ (player.py lines 52-98) as World.process_data calls it
NewPlayer(layout) ==
    [health |-> PLAYER_HEALTH, max_health |-> PLAYER_HEALTH, alive |-> TRUE,
     hit_anim_timer |-> 0, shoot_cooldown |-> 0, grenade_cooldown |-> 0,
     ammo |-> START_AMMO, grenades |-> START_GRENADES, shoot |-> FALSE,
     grenade_charging |-> FALSE, death_timer |-> 0, direction |-> "right",
     reached_level_end |-> FALSE,
     cx |-> layout.player[1], cy |-> layout.player[2],
     has_in_danger_zone |-> FALSE, in_danger_zone |-> FALSE]

\* Enemy.__init__ with the __init__ of the three species; FierceTooth and
\* SeashellPearl are built with smartmode True (main.py lines 180, 191).
\* attack_cooldown is bite_cooldown and shoot_cooldown is fire_cooldown for
\* the SeashellPearl.  Player.__init__ sets no in_danger_zone attribute:
\* has_in_danger_zone is hasattr(player, 'in_danger_zone').  since_bite of
\* the SeashellPearl is history: the updates since it last bit the player,
\* counted up to BITE_COOLDOWN.  Two fields of
\* the PinkStar are history: after_update is what update left for
\* handle_movement (with the A* result it used), recovery_age counts the
\* updates since the attack that began the present recovery.
NewEnemy(k, layout) ==
    [health |-> start_health(k), max_health |-> start_health(k),
     alive |-> TRUE, hit_anim_timer |-> 0, shoot_cooldown |-> 0,
     attack_cooldown |-> 0, post_attack_recovery |-> FALSE,
     attack_recovery_timer |-> 0, direction |-> "left",
     smartmode |-> k # "ps", was_hit_from_behind |-> FALSE,
     death_handled |-> FALSE, in_group |-> TRUE,
     cx |-> layout[k][1], cy |-> layout[k][2]]
        @@ (IF k = "ss"
            THEN [biting |-> FALSE, bite_animation_timer |-> 0,
                  player_in_vision |-> FALSE, recently_lost_vision_timer |-> 0,
                  recheck_turn_timer |-> 0, turn_cooldown |-> 0,
                  since_bite |-> BITE_COOLDOWN]
            ELSE IF k = "ps"
            THEN [chasing_player |-> FALSE, path |-> << >>,
                  current_path_index |-> 0, path_update_timer |-> 0,
                  after_update |-> [chasing_player |-> FALSE, path |-> << >>,
                                    current_path_index |-> 0,
                                    path_nodes |-> << >>, recomputed |-> FALSE,
                                    attacking |-> FALSE,
                                    post_attack_recovery |-> FALSE],
                  recovery_age |-> 0,
                  path_ended |-> FALSE, path_ended_before |-> FALSE]
            ELSE [dodge_cooldown |-> 0, since_dodge |-> DODGE_COOLDOWN,
                  after_update |-> [attacking |-> FALSE,
                                    post_attack_recovery |-> FALSE]])

\* database.load_level_progress when the level has no row
NoProgress ==
    [exists |-> FALSE, health |-> 0, ammo |-> 0, grenades |-> 0,
     collected_ids |-> {}, killed_enemy_ids |-> {}, reached_end |-> FALSE]

\* database.save_level_progress (lines 72-123) with the payload of main.py
\* lines 804-814
SavedRow(p, info, gems) ==
    [exists |-> TRUE, health |-> p.health, ammo |-> p.ammo,
     grenades |-> p.grenades,
     collected_ids |-> (1 .. NumHealthGems) \ gems,
     killed_enemy_ids |-> IF info.has_killed_ids THEN info.killed_enemy_ids ELSE {},
     reached_end |-> p.reached_level_end]

\* database.reset_level_progress (lines 177-189) deletes the row
reset_level_progress == NoProgress

\* Level.__init__ (level.py): no killed_enemy_ids attribute yet.  `tick_end`
\* is history: the healths and the health gems left at the end of the last
\* tick played in this level state, << >> before its first tick ends.
NewLevel(layout) ==
    [world_data |-> layout, has_killed_ids |-> FALSE, killed_enemy_ids |-> {},
     tick_end |-> << >>]

\* the part of apply_saved_progress (main.py lines 463-507) on the player
ProgressPlayer(p, row) ==
    IF ~row.exists THEN p
    ELSE [p EXCEPT !.ammo = row.ammo, !.grenades = row.grenades,
                   !.health = row.health,
                   !.max_health = IF row.health > @ THEN row.health ELSE @,
                   !.reached_level_end = row.reached_end]

\* ... on the enemies: kill() takes a saved-killed enemy out of its group;
\* the `enemies` list of start_level still holds the object
ProgressEnemies(es, row) ==
    [k \in Species |->
        IF k \in row.killed_enemy_ids THEN [es[k] EXCEPT !.in_group = FALSE]
        ELSE es[k]]

(***************************************************************************)
(* The Grenade of objects.py.  Velocities are kept in thousandths of a     *)
(* pixel per tick; update_sprite re-reads position from the integer rect   *)
(* after every update, so a position is a whole number of pixels at the    *)
(* start of each update.  The rect keeps the size of the unrotated frame.  *)
(***************************************************************************)
GROUND_Y == 400
GRAVITY == 700
BOUNCE_DAMPING_Y == 35
MIN_BOUNCE_VY == 1200
AIR_DRAG == 995
ROLL_DECEL == 1950
ROLL_STOP_THRESHOLD == 600
THROW_SPEED == 8000
THROW_VY == -12000
FUSE_TICKS == 100
BLAST_DURATION == (3 * FPS) \div 10

\* utils.load_ammo_sprites: grenade frames TILE_SIZE // 3 wide, explosion
\* frames TILE_SIZE * 4 wide, both square
GRENADE_SIZE == TILE_SIZE \div 3
EXPLOSION_SIZE == TILE_SIZE * 4

Targets == Species \cup {"player"}

\* integer division rounding toward zero
TruncDiv(a, b) == IF a >= 0 THEN a \div b ELSE -((-a) \div b)

\* Python round() of a value given in thousandths (ties to even)
RoundMilli(m) ==
    LET q == m \div 1000
        r == m % 1000
    IN  IF r < 500 THEN q
        ELSE IF r > 500 THEN q + 1
        ELSE IF q % 2 = 0 THEN q ELSE q + 1

RECURSIVE IsqrtIn(_, _, _)
IsqrtIn(n, lo, hi) ==
    IF lo >= hi THEN lo
    ELSE LET mid == (lo + hi + 1) \div 2
         IN  IF mid * mid <= n THEN IsqrtIn(n, mid, hi)
             ELSE IsqrtIn(n, lo, mid - 1)

\* floor of the square root
Isqrt(n) == IsqrtIn(n, 0, 40000)

\* a fuse one tick short
NewGrenadeShortFuse(x, y, dirx) ==
    [state |-> "thrown", timer |-> FUSE_TICKS - 1, blast_timer |-> 0,
     blast_applied |-> FALSE, x |-> x, y |-> y,
     w |-> GRENADE_SIZE, h |-> GRENADE_SIZE,
     vx |-> dirx * THROW_SPEED, vy |-> THROW_VY,
     updates |-> 0, hits |-> [t \in Targets |-> 0]]

\* Grenade.__init__ (objects.py lines 518-545); `updates` counts the calls
\* of update and `hits` the blast get_hit calls per target (history)
NewGrenade(x, y, dirx) ==
    [state |-> "thrown", timer |-> FUSE_TICKS, blast_timer |-> 0,
     blast_applied |-> FALSE, x |-> x, y |-> y,
     w |-> GRENADE_SIZE, h |-> GRENADE_SIZE,
     vx |-> dirx * THROW_SPEED, vy |-> THROW_VY,
     updates |-> 0, hits |-> [t \in Targets |-> 0]]

\* Grenade.start_explosion (lines 557-575): the explosion rect is anchored
\* at the midbottom of the grenade rect
start_explosion(g) ==
    LET midx == g.x + g.w \div 2
        bottom == g.y + g.h
    IN  [g EXCEPT !.state = "blast", !.vx = 0, !.vy = 0,
                  !.blast_applied = FALSE,
                  !.w = EXPLOSION_SIZE, !.h = EXPLOSION_SIZE,
                  !.x = midx - EXPLOSION_SIZE \div 2,
                  !.y = bottom - EXPLOSION_SIZE,
                  !.blast_timer = BLAST_DURATION]

\* the physics of the thrown state (lines 622-651)
ThrownPhysics(g) ==
    LET airborne == g.y + g.h < GROUND_Y
        vy1 == IF airborne THEN g.vy + GRAVITY ELSE g.vy
        vx1 == IF airborne THEN TruncDiv(g.vx * AIR_DRAG, 1000) ELSE g.vx
        px == g.x * 1000 + vx1
        py == g.y * 1000 + vy1
        landed == py + g.h * 1000 >= GROUND_Y * 1000
        py2 == IF landed THEN (GROUND_Y - g.h) * 1000 ELSE py
        vy2 == IF ~landed THEN vy1
               ELSE IF Abs(vy1) > MIN_BOUNCE_VY
                    THEN TruncDiv(-vy1 * BOUNCE_DAMPING_Y, 100)
                    ELSE 0
        vx2 == IF ~landed THEN vx1
               ELSE IF vx1 > 0
                    THEN (IF vx1 - ROLL_DECEL < ROLL_STOP_THRESHOLD
                          THEN 0 ELSE vx1 - ROLL_DECEL)
               ELSE IF vx1 < 0
                    THEN (IF vx1 + ROLL_DECEL > -ROLL_STOP_THRESHOLD
                          THEN 0 ELSE vx1 + ROLL_DECEL)
               ELSE vx1
    IN  [g EXCEPT !.x = RoundMilli(px), !.y = RoundMilli(py2),
                  !.vx = vx2, !.vy = vy2]

(***************************************************************************)
(* The main loop.  `screens` holds the seven screen flags of main(); the   *)
(* if/elif chain of lines 589-873 runs the branch of the first flag set.   *)
(* `pc` walks through the passes of the playing branch in program order.   *)
(***************************************************************************)
ActiveScreen(f) ==
    IF f.main_menu THEN "main_menu"
    ELSE IF f.instructions_page THEN "instructions_page"
    ELSE IF f.levels_page THEN "levels_page"
    ELSE IF f.stats_page THEN "stats_page"
    ELSE IF f.playing_level THEN "playing_level"
    ELSE IF f.death_screen THEN "death_screen"
    ELSE IF f.next_level_screen THEN "next_level_screen"
    ELSE "none"

\* one get_hit call, as the history variable `calls` records it
Call(target, before, after, damage) ==
    [target |-> target, hit_anim_timer |-> before.hit_anim_timer,
     health |-> before.health, damage |-> damage,
     health_after |-> after.health, alive_after |-> after.alive]

\* a get_hit call on the enemy k, with the attacker passed to it and the
\* hit_anim_timer it leaves
EnemyCall(k, before, after, damage, attacker) ==
    Call(k, before, after, damage)
        @@ [attacker |-> attacker, stun_after |-> after.hit_anim_timer]

\* a get_hit call an enemy makes on touching the player, with the state the
\* enemy k is in when it makes the call (attacking is its attacking flag)
ContactCall(k, e, attacking, before, after, damage) ==
    [target |-> "player", hit_anim_timer |-> before.hit_anim_timer,
     health |-> before.health, damage |-> damage,
     health_after |-> after.health, alive_after |-> after.alive,
     by |-> k, attacking |-> attacking, attack_cooldown |-> e.attack_cooldown,
     attacker_hit_anim_timer |-> e.hit_anim_timer, attacker_alive |-> e.alive,
     post_attack_recovery |-> e.post_attack_recovery]

\* a CannonBall or Pearl in flight, fired by the enemy at centre x;
\* born, cooldown, by_alive and hit_at are history: the tick of the shoot()
\* or fire() call, the shooter's ranged cooldown and its alive flag when the
\* call was made, and the tick in which the shot met the player (-1 before)
NewShot(e, born, cooldown) ==
    [state |-> "flying", cx |-> e.cx, cy |-> e.cy,
     dir |-> IF e.direction = "right" THEN 1 ELSE -1,
     born |-> born, cooldown |-> cooldown,
     by_alive |-> e.alive, hit_at |-> -1]

\* the recovery countdown at the end of FierceTooth.update / PinkStar.update
RecoveryTick(k, e) ==
    IF ~e.post_attack_recovery THEN e
    ELSE IF e.attack_recovery_timer + 1 >= attack_recovery_duration(k)
         THEN [e EXCEPT !.post_attack_recovery = FALSE, !.attack_recovery_timer = 0]
         ELSE [e EXCEPT !.attack_recovery_timer = @ + 1]

\* the lock an enemy enters after striking the player
StartRecovery(e, cooldown) ==
    [e EXCEPT !.post_attack_recovery = TRUE, !.attack_recovery_timer = 0,
              !.attack_cooldown = cooldown]

(***************************************************************************)
(* main.py lines 667-684: the FierceTooth pass.  Inputs: what              *)
(* check_vision_cone returns (vision), the coin of random.randint(1, 2),   *)
(* whether the player stands within attack_range // 2 at the same height   *)
(* (near), whether continue_chase_timer is 0 (chase0), whether the enemy   *)
(* turns on a player behind it (turns), whether it lands on the player in  *)
(* handle_movement (lands), for a dead enemy whether handle_death reaches  *)
(* a tile (grounded), whether a gem is within 100 inside the cone and      *)
(* random.random() < 0.3 (bullet), and the first grenade of the group      *)
(* within 150 inside the cone (grenade, 0 for none).                       *)
(***************************************************************************)
\* FierceTooth.check_and_dodge_bullets (fiercetooth.py lines 338-380)
check_and_dodge_bullets(e, bullet) ==
    IF ~e.smartmode \/ ~e.alive THEN e
    ELSE IF e.dodge_cooldown > 0 THEN [e EXCEPT !.dodge_cooldown = @ - 1]
    ELSE IF bullet
    THEN [e EXCEPT !.dodge_cooldown = DODGE_COOLDOWN, !.since_dodge = 0]
    ELSE e

\* FierceTooth.check_and_dodge_grenades (lines 382-436): the enemy turns
\* away from the grenade
check_and_dodge_grenades(e, grenade, grenades) ==
    IF ~e.smartmode \/ ~e.alive THEN e
    ELSE IF e.dodge_cooldown > 0 THEN [e EXCEPT !.dodge_cooldown = @ - 1]
    ELSE IF grenade > 0
    THEN [e EXCEPT !.dodge_cooldown = DODGE_COOLDOWN, !.since_dodge = 0,
                   !.direction =
                       IF grenades[grenade].x + grenades[grenade].w \div 2 >= e.cx
                       THEN "left" ELSE "right"]
    ELSE e

\* main.py lines 673-675: the two dodge checks of one pass, in their order;
\* since_dodge counts the passes since the last dodge, up to DODGE_COOLDOWN
Dodged(e, bullet, grenade, grenades) ==
    check_and_dodge_grenades(
        check_and_dodge_bullets(
            [e EXCEPT !.since_dodge = IF @ < DODGE_COOLDOWN THEN @ + 1 ELSE @],
            bullet),
        grenade, grenades)

FierceToothPass(vision, coin, near, chase0, turns, lands, grounded, bullet, grenade) ==
    /\ pc = "top"
    /\ ActiveScreen(screens) = "playing_level"
    /\ pc' = "ss"
    /\ LET e0 == enemies["ft"]
           att == Attacker("ft", e0.cx)
       IN  IF ~e0.in_group
           THEN /\ ~coin /\ ~near /\ chase0 /\ ~turns /\ ~lands /\ ~grounded
                /\ vision = "none" /\ ~bullet /\ grenade = 0
                /\ UNCHANGED <<enemies, player, cannon_ball_group, level_info>>
                /\ calls' = << >>
           ELSE IF ~e0.alive
           THEN /\ ~coin /\ ~near /\ chase0 /\ ~turns /\ ~lands
                /\ vision = "none" /\ ~bullet /\ grenade = 0
                /\ (grounded => ~e0.death_handled)
                /\ enemies' = [enemies EXCEPT !["ft"].death_handled = @ \/ grounded]
                /\ level_info' =
                      IF ~e0.death_handled /\ level_info.has_killed_ids
                      THEN [level_info EXCEPT !.killed_enemy_ids = @ \cup {"ft"}]
                      ELSE level_info
                /\ UNCHANGED <<player, cannon_ball_group>>
                /\ calls' = << >>
           ELSE /\ ~grounded
                /\ (~player.alive => vision = "none")
                /\ (coin => vision = "shoot")
                /\ (near => vision = "attack")
                /\ LET e1 == EnemyCheckAlive(e0)
                       shoots == vision = "shoot" /\ e1.hit_anim_timer = 0
                                 /\ e1.shoot_cooldown = 0 /\ coin
                       e2 == IF shoots THEN [e1 EXCEPT !.shoot_cooldown = 60] ELSE e1
                       e3 == [e2 EXCEPT !.shoot_cooldown = Dec(@),
                                        !.attack_cooldown = Dec(@)]
                       e4 == IF ~chase0 THEN e3
                             ELSE IF vision # "none" /\ ~e3.post_attack_recovery
                                     /\ e3.hit_anim_timer = 0 THEN e3
                             ELSE IF e3.post_attack_recovery
                                  THEN [e3 EXCEPT !.shoot_cooldown = 120]
                             ELSE IF e3.hit_anim_timer > 0
                                  THEN [e3 EXCEPT !.attack_cooldown = 60]
                             ELSE e3
                       strikes == vision = "attack" /\ e4.attack_cooldown = 0
                                  /\ e4.hit_anim_timer = 0 /\ near
                       p1 == IF strikes /\ player.alive
                             THEN PlayerGetHit(player, 30, att) ELSE player
                       c1 == IF strikes /\ player.alive
                             THEN <<ContactCall("ft", e4, vision = "attack",
                                                player, p1, 30)>>
                             ELSE << >>
                       e5 == IF strikes THEN StartRecovery(e4, 60) ELSE e4
                       turned == turns /\ e5.smartmode /\ ~e5.post_attack_recovery
                                 /\ e5.hit_anim_timer = 0
                       e6 == IF turned
                             THEN [e5 EXCEPT !.direction =
                                       IF @ = "right" THEN "left" ELSE "right",
                                             !.attack_cooldown = 0]
                             ELSE e5
                       ticked == RecoveryTick("ft", e6)
                       e7 == [ticked EXCEPT
                                !.hit_anim_timer = Dec(@),
                                !.after_update =
                                    [attacking |-> vision = "attack" \/ turned,
                                     post_attack_recovery |->
                                         ticked.post_attack_recovery]]
                       stomps == lands /\ p1.alive
                       p2 == IF stomps THEN PlayerGetHit(p1, 20, att) ELSE p1
                       c2 == IF stomps
                             THEN <<ContactCall("ft", e7, vision = "attack" \/ turned,
                                                p1, p2, 20)>>
                             ELSE << >>
                       e8 == IF stomps THEN StartRecovery(e7, 60) ELSE e7
                       d8 == Dodged(e8, bullet, grenade, player_grenade_group)
                       e9 == IF d8.was_hit_from_behind
                             THEN [d8 EXCEPT !.shoot_cooldown = 60,
                                             !.was_hit_from_behind = FALSE]
                             ELSE d8
                       b1 == IF shoots
                             THEN Append(cannon_ball_group,
                                         NewShot(e1, tick, e1.shoot_cooldown))
                             ELSE cannon_ball_group
                       b2 == IF e8.was_hit_from_behind
                             THEN Append(b1, NewShot(e8, tick, e8.shoot_cooldown))
                             ELSE b1
                   IN  /\ (turns => turned)
                       /\ (bullet => /\ player_ammo_group # << >>
                                     /\ e8.smartmode /\ e8.alive
                                     /\ e8.dodge_cooldown = 0)
                       /\ grenade \in 0 .. Len(player_grenade_group)
                       /\ (grenade > 0 =>
                              d8.since_dodge = 0 /\ d8.dodge_cooldown = DODGE_COOLDOWN)
                       /\ enemies' = [enemies EXCEPT !["ft"] = e9]
                       /\ player' = p2
                       /\ cannon_ball_group' = b2
                       /\ calls' = c1 \o c2
                       /\ UNCHANGED level_info
    /\ UNCHANGED <<zoneVars, screens, idx, tick, player_ammo_group,
                   player_grenade_group, pearl_group, health_gems, progress>>

(***************************************************************************)
(* main.py lines 686-700: the SeashellPearl pass.  Inputs: the result of   *)
(* check_vision_cone (vision), which sets biting on "bite" and clears it   *)
(* on anything else, and whether the player's rect touches the shell's at  *)
(* less than 10 of height difference (touching).  Which side the player   *)
(* is on follows from the two centres.                                     *)
(***************************************************************************)
\* the vision bookkeeping of smartmode (seashell_pearl.py lines 318-335)
VisionBookkeeping(e, previous_vision) ==
    LET a == IF previous_vision /\ ~e.player_in_vision
             THEN [e EXCEPT !.recently_lost_vision_timer = 30,
                            !.recheck_turn_timer =
                                IF e.turn_cooldown = 0
                                THEN RECHECK_TURN_DURATION ELSE @]
             ELSE [e EXCEPT !.recently_lost_vision_timer = Dec(@)]
        b == [a EXCEPT !.turn_cooldown = Dec(@)]
    IN  IF b.recheck_turn_timer > 0 /\ b.hit_anim_timer = 0
        THEN IF b.recheck_turn_timer = 1 /\ ~b.player_in_vision
                /\ b.turn_cooldown = 0
             THEN [b EXCEPT !.recheck_turn_timer = 0,
                            !.direction = Turned(@),
                            !.turn_cooldown = TURN_COOLDOWN]
             ELSE [b EXCEPT !.recheck_turn_timer = @ - 1]
        ELSE b

\* the turn on a player who slipped behind (lines 345-352)
LostVisionTurn(e, dx) ==
    IF e.smartmode /\ e.recently_lost_vision_timer > 0
       /\ PlayerIsBehind(e.direction, dx) /\ e.turn_cooldown = 0
    THEN [e EXCEPT !.direction = Turned(@),
                   !.recently_lost_vision_timer = 0,
                   !.recheck_turn_timer = RECHECK_TURN_DURATION,
                   !.turn_cooldown = TURN_COOLDOWN]
    ELSE e

\* SeashellPearl.react_to_grenades (lines 151-185): the first grenade within
\* reach decides; one inside the cone makes the shell face the player
RECURSIVE react_to_grenades(_, _, _, _)
react_to_grenades(e, p, grenades, i) ==
    IF ~e.smartmode \/ ~e.alive \/ i > Len(grenades) THEN e
    ELSE LET g == grenades[i]
             dx == (g.x + g.w \div 2) - e.cx
             dy == (g.y + g.h \div 2) - e.cy
         IN  IF dx * dx + dy * dy < GRENADE_REACT_RANGE * GRENADE_REACT_RANGE
             THEN IF InSeashellCone(e.direction, dx, dy)
                  THEN IF e.turn_cooldown = 0
                       THEN [e EXCEPT !.direction =
                                 IF @ = "right" /\ p.cx - e.cx < 0 THEN "left"
                                 ELSE IF @ = "left" /\ p.cx - e.cx > 0 THEN "right"
                                 ELSE @,
                                      !.turn_cooldown = TURN_COOLDOWN]
                       ELSE e
                  ELSE react_to_grenades(e, p, grenades, i + 1)
             ELSE react_to_grenades(e, p, grenades, i + 1)

\* half the width of the player's rect (sprites scaled to TILE_SIZE - 8)
PlayerHalfWidth == (TILE_SIZE - 8) \div 2

\* SeashellPearl.check_vision_cone (lines 74-149) on the two rects; frames
\* are taken as square, TILE_SIZE wide for the shell
seashell_check_vision_cone(e, p) ==
    LET dx == p.cx - e.cx
        dy == p.cy - e.cy
        d2 == dx * dx + dy * dy
    IN  IF ~p.alive THEN "none"
        ELSE IF p.cy + PlayerHalfWidth > e.cy + TILE_SIZE \div 2 THEN "none"
        ELSE IF d2 > SS_VISION_RANGE * SS_VISION_RANGE THEN "none"
        ELSE IF ~InSeashellCone(e.direction, dx, dy) THEN "none"
        ELSE IF d2 <= bite_range * bite_range THEN "bite"
        ELSE "fire"

\* the player's rect touches the shell's with the centres less than 10
\* apart in height (lines 371-376)
SeashellTouches(e, p) ==
    /\ colliderect(Rect(e.cx - TILE_SIZE \div 2, e.cy - TILE_SIZE \div 2,
                        TILE_SIZE, TILE_SIZE),
                   Rect(p.cx - PlayerHalfWidth, p.cy - PlayerHalfWidth,
                        2 * PlayerHalfWidth, 2 * PlayerHalfWidth))
    /\ Abs(p.cy - e.cy) < 10

\* the head of update (lines 300-313): check_alive, the cone's verdict and
\* the bite animation timer
BiteAnimation(e, vision) ==
    LET seen == [EnemyCheckAlive(e) EXCEPT !.biting = (vision = "bite"),
                                           !.player_in_vision = (vision # "none")]
    IN  IF vision # "bite" THEN seen
        ELSE IF e.bite_animation_timer < bite_animation_duration
        THEN [seen EXCEPT !.bite_animation_timer = @ + 1]
        ELSE [seen EXCEPT !.bite_animation_timer = 0, !.biting = FALSE]

\* the gated fire of update (line 316)
Fires(e, vision) ==
    vision = "fire" /\ e.shoot_cooldown = 0 /\ e.hit_anim_timer = 0

\* SeashellPearl.fire (lines 266-284) where update calls it
Fired(e, vision) ==
    IF Fires(e, vision) THEN [e EXCEPT !.shoot_cooldown = FIRE_COOLDOWN] ELSE e

\* the pearl of the gated fire, with the cooldown it was fired at
FiredPearls(group, e, vision, t) ==
    IF Fires(e, vision) THEN Append(group, NewShot(e, t, e.shoot_cooldown))
    ELSE group

\* lines 319-347: the bookkeeping of smartmode, the two cooldowns counted
\* down, and the bite held back while the hit animation runs
SeashellCooldowns(e, previous_vision) ==
    LET w == IF e.smartmode THEN VisionBookkeeping(e, previous_vision) ELSE e
    IN  [w EXCEPT !.shoot_cooldown = Dec(@),
                  !.attack_cooldown = IF w.hit_anim_timer > 0 THEN 60 ELSE Dec(@)]

\* the bite damage of update (lines 359-369)
Bites(e) == e.biting /\ e.attack_cooldown = 0

\* updates since the last bite that did damage, counted up to BITE_COOLDOWN
SinceBite(e) ==
    IF e.since_bite < BITE_COOLDOWN THEN e.since_bite + 1 ELSE BITE_COOLDOWN

Bitten(e, p) ==
    IF Bites(e)
    THEN [e EXCEPT !.attack_cooldown = BITE_COOLDOWN,
                   !.bite_animation_timer = IF @ = 0 THEN 1 ELSE @,
                   !.since_bite = IF p.alive THEN 0 ELSE SinceBite(e)]
    ELSE [e EXCEPT !.since_bite = SinceBite(e)]

BittenPlayer(e, p) ==
    IF Bites(e) /\ p.alive THEN PlayerGetHit(p, 40, Attacker("ss", e.cx)) ELSE p

BiteCalls(e, p) ==
    IF Bites(e) /\ p.alive
    THEN <<ContactCall("ss", e, e.biting, p, BittenPlayer(e, p), 40)
              @@ [since_bite |-> SinceBite(e)]>>
    ELSE << >>

\* the turn on a player who touches the shell from behind (lines 371-387),
\* and the hit animation timer counted down
CollisionTurn(e, touching, dx) ==
    LET t == IF touching /\ e.smartmode /\ PlayerIsBehind(e.direction, dx)
                /\ e.hit_anim_timer = 0 /\ e.turn_cooldown = 0
             THEN [e EXCEPT !.direction = Turned(@),
                            !.biting = TRUE,
                            !.attack_cooldown = 0,
                            !.recheck_turn_timer = RECHECK_TURN_DURATION,
                            !.turn_cooldown = TURN_COOLDOWN]
             ELSE e
    IN  [t EXCEPT !.hit_anim_timer = Dec(@)]

\* main.py lines 695-697: the shell hit from behind fires, whatever its
\* cooldown
Retaliated(e) ==
    IF e.was_hit_from_behind
    THEN [e EXCEPT !.shoot_cooldown = FIRE_COOLDOWN, !.was_hit_from_behind = FALSE]
    ELSE e

RetaliationPearls(group, e, t) ==
    IF e.was_hit_from_behind
    THEN Append(group, NewShot(e, t, e.shoot_cooldown))
    ELSE group

SeashellPass(vision, touching) ==
    /\ pc = "ss"
    /\ pc' = "ps"
    /\ LET e0 == enemies["ss"]
           dx == player.cx - e0.cx
       IN  IF ~e0.in_group
           THEN /\ vision = "none" /\ ~touching
                /\ UNCHANGED <<enemies, player, pearl_group, level_info>>
                /\ calls' = << >>
           ELSE IF ~e0.alive
           THEN /\ vision = "none" /\ ~touching
                /\ level_info' =
                      IF level_info.has_killed_ids
                      THEN [level_info EXCEPT !.killed_enemy_ids = @ \cup {"ss"}]
                      ELSE level_info
                /\ UNCHANGED <<enemies, player, pearl_group>>
                /\ calls' = << >>
           ELSE /\ (~player.alive => vision = "none")
                /\ (vision # "none" => ~PlayerIsBehind(e0.direction, dx))
                /\ LET e1 == BiteAnimation(e0, vision)
                       e4 == LostVisionTurn(
                                 SeashellCooldowns(Fired(e1, vision),
                                                   e0.player_in_vision), dx)
                       p1 == BittenPlayer(e4, player)
                       faced == react_to_grenades(
                                    CollisionTurn(Bitten(e4, player), touching, dx),
                                    p1, player_grenade_group, 1)
                   IN  /\ enemies' = [enemies EXCEPT !["ss"] = Retaliated(faced)]
                       /\ player' = p1
                       /\ pearl_group' =
                             RetaliationPearls(
                                 FiredPearls(pearl_group, e1, vision, tick),
                                 faced, tick)
                       /\ calls' = BiteCalls(e4, player)
                       /\ UNCHANGED level_info
    /\ UNCHANGED <<zoneVars, screens, idx, tick, player_ammo_group,
                   player_grenade_group, cannon_ball_group, health_gems, progress>>

(***************************************************************************)
(* main.py lines 702-711: the PinkStar pass.  Inputs: whether the player   *)
(* is within attack_range (in_range, which sets attacking), within         *)
(* attack_range // 2 at the same height (near), whether the star lands on  *)
(* the player in handle_movement (lands), for a dead star whether          *)
(* handle_death reaches a tile (grounded), what the path search yields     *)
(* when update runs it (path_nodes: the waypoints astar_pathfinding        *)
(* returns, << >> when it returns None or no purple rectangle exists), and *)
(* where handle_movement finds the star on its path (arrives: "close" is   *)
(* within 5 of the target, "under" is below a target that is no waypoint,  *)
(* "far" is neither).                                                      *)
(***************************************************************************)
\* a gate without the fallback: the path is whatever the search gave
ChaseGateStalls(e, p, path_nodes) ==
    IF /\ p.alive /\ p.has_in_danger_zone /\ p.in_danger_zone
       /\ ~e.post_attack_recovery /\ e.hit_anim_timer = 0
    THEN [e EXCEPT !.chasing_player = TRUE, !.path = path_nodes,
                   !.current_path_index = 0, !.path_update_timer = 0]
    ELSE [e EXCEPT !.chasing_player = FALSE, !.path = << >>,
                   !.current_path_index = 0]

\* the chase gate of update (lines 643-672)
ChaseGate(e, p, path_nodes) ==
    IF /\ p.alive /\ p.has_in_danger_zone /\ p.in_danger_zone
       /\ ~e.post_attack_recovery /\ e.hit_anim_timer = 0
    THEN IF e.path_update_timer + 1 >= path_update_interval \/ e.path = << >>
         THEN [e EXCEPT !.chasing_player = TRUE,
                        !.path = IF path_nodes # << >>
                                 THEN Append(path_nodes, <<p.cx, p.cy>>)
                                 ELSE << <<p.cx, p.cy>> >>,
                        !.current_path_index = 0,
                        !.path_update_timer = 0]
         ELSE [e EXCEPT !.chasing_player = TRUE, !.path_update_timer = @ + 1]
    ELSE [e EXCEPT !.chasing_player = FALSE, !.path = << >>,
                   !.current_path_index = 0]

\* whether the gate runs the path search
Recomputes(e, p) ==
    /\ p.alive /\ p.has_in_danger_zone /\ p.in_danger_zone
    /\ ~e.post_attack_recovery /\ e.hit_anim_timer = 0
    /\ (e.path_update_timer + 1 >= path_update_interval \/ e.path = << >>)

\* path following in handle_movement (lines 338-372)
FollowPath(e, arrives) ==
    IF ~(e.chasing_player /\ e.path # << >>
         /\ e.current_path_index < Len(e.path)) THEN e
    ELSE IF arrives = "close"
    THEN IF e.current_path_index + 1 >= Len(e.path)
         THEN [e EXCEPT !.path = << >>, !.current_path_index = 0]
         ELSE [e EXCEPT !.current_path_index = @ + 1]
    ELSE IF arrives = "under"
    THEN [e EXCEPT !.path = << >>, !.current_path_index = 0,
                   !.path_update_timer = path_update_interval]
    ELSE e

\* the step of handle_movement that reaches the last waypoint: line 348
\* moves current_path_index past the end and lines 349-351 empty the path
EndsPath(e, arrives) ==
    /\ e.chasing_player /\ e.path # << >>
    /\ e.current_path_index < Len(e.path)
    /\ arrives = "close"
    /\ e.current_path_index + 1 >= Len(e.path)

\* the branch of handle_movement a PinkStar takes (pink_star.py 338-391):
\* along the path, straight at the player, or the patrol
MovementBranch(e) ==
    IF ~e.chasing_player THEN "patrol"
    ELSE IF e.path # << >> /\ e.current_path_index < Len(e.path) THEN "path"
    ELSE "direct"

PinkStarPass(in_range, near, lands, grounded, path_nodes, arrives) ==
    /\ pc = "ps"
    /\ pc' = "player"
    /\ LET e0 == enemies["ps"]
           att == Attacker("ps", e0.cx)
       IN  IF ~e0.in_group
           THEN /\ ~in_range /\ ~near /\ ~lands /\ ~grounded
                /\ path_nodes = << >> /\ arrives = "far"
                /\ UNCHANGED <<enemies, player, level_info>>
                /\ calls' = << >>
           ELSE IF ~e0.alive
           THEN /\ ~in_range /\ ~near /\ ~lands
                /\ path_nodes = << >> /\ arrives = "far"
                /\ (grounded => ~e0.death_handled)
                /\ enemies' = [enemies EXCEPT !["ps"].death_handled = @ \/ grounded]
                /\ level_info' =
                      IF level_info.has_killed_ids
                      THEN [level_info EXCEPT !.killed_enemy_ids = @ \cup {"ps"}]
                      ELSE level_info
                /\ UNCHANGED player
                /\ calls' = << >>
           ELSE /\ ~grounded
                /\ (near => in_range)
                /\ LET e1 == EnemyCheckAlive(e0)
                       gated == ChaseGate(e1, player, path_nodes)
                       e2 == [gated EXCEPT !.attack_cooldown = Dec(@)]
                       e3 == IF ~e2.post_attack_recovery /\ e2.hit_anim_timer > 0
                             THEN [e2 EXCEPT !.attack_cooldown = 150] ELSE e2
                       strikes == in_range /\ e3.attack_cooldown = 0
                                  /\ e3.hit_anim_timer = 0 /\ near
                       p1 == IF strikes /\ player.alive
                             THEN PlayerGetHit(player, 90, att) ELSE player
                       c1 == IF strikes /\ player.alive
                             THEN <<ContactCall("ps", e3, in_range, player, p1, 90)>>
                             ELSE << >>
                       e4 == IF strikes
                             THEN StartRecovery([e3 EXCEPT !.chasing_player = FALSE],
                                                150)
                             ELSE e3
                       ticked == [RecoveryTick("ps", e4) EXCEPT !.hit_anim_timer = Dec(@)]
                       updated == [ticked EXCEPT
                                     !.recovery_age =
                                         IF ticked.post_attack_recovery
                                            /\ e1.post_attack_recovery
                                         THEN @ + 1 ELSE 0,
                                     !.after_update =
                                         [chasing_player |-> ticked.chasing_player,
                                          path |-> ticked.path,
                                          current_path_index |->
                                              ticked.current_path_index,
                                          path_nodes |-> path_nodes,
                                          recomputed |-> Recomputes(e1, player),
                                          attacking |-> in_range /\ ~strikes,
                                          post_attack_recovery |->
                                              ticked.post_attack_recovery]]
                       e5 == [FollowPath(updated, arrives) EXCEPT
                                !.path_ended = EndsPath(updated, arrives),
                                !.path_ended_before = e0.path_ended]
                       stomps == lands /\ p1.alive
                       p2 == IF stomps THEN PlayerGetHit(p1, 50, att) ELSE p1
                       c2 == IF stomps
                             THEN <<ContactCall("ps", e5, in_range /\ ~strikes,
                                                p1, p2, 50)>>
                             ELSE << >>
                       e6 == IF stomps
                             THEN StartRecovery([e5 EXCEPT !.chasing_player = FALSE],
                                                150)
                             ELSE e5
                   IN  /\ (path_nodes # << >> => Recomputes(e1, player))
                       /\ (arrives # "far" => updated.chasing_player)
                       /\ enemies' = [enemies EXCEPT !["ps"] = e6]
                       /\ player' = p2
                       /\ calls' = c1 \o c2
                       /\ UNCHANGED level_info
    /\ UNCHANGED <<zoneVars, screens, idx, tick, player_ammo_group,
                   player_grenade_group, cannon_ball_group, pearl_group,
                   health_gems, progress>>

\* an update that leaves check_alive out
PlayerUpdateNoCheck(p) ==
    [p EXCEPT !.shoot_cooldown = Dec(@),
              !.grenade_cooldown = Dec(@),
              !.hit_anim_timer = Dec(@)]

(***************************************************************************)
(* Player.update (player.py lines 477-517): check_alive, then the          *)
(* cooldowns and the hit timer count down.                                 *)
(***************************************************************************)
PlayerUpdate(p) ==
    [PlayerCheckAlive(p) EXCEPT !.shoot_cooldown = Dec(@),
                                !.grenade_cooldown = Dec(@),
                                !.hit_anim_timer = Dec(@)]

\* a death animation that ends with the player back on their feet
handle_death_revives(p) == [p EXCEPT !.alive = TRUE]

\* Player.handle_death (lines 202-236): the fall animation; nothing of the
\* combat state changes
handle_death(p) == p

\* the length of the death animation, Player.death_duration
death_duration == 1

(***************************************************************************)
(* main.py lines 713-763: the player pass.  Inputs: the direction key      *)
(* held (key), whether handle_movement carries the player along by its     *)
(* velocity (walks; otherwise it only turns), the enemy the player lands   *)
(* on in handle_movement (stomp), and whether the player stands at the     *)
(* level-end flag with RETURN held (at_end).                               *)
(***************************************************************************)
\* PurpleGem.__init__ as shoot_ammo calls it (player.py lines 409-420): the
\* gem starts at the middle of the player's rect when he faces right, at
\* its left edge when he faces left, at the height of its centre
GEM_SIZE == TILE_SIZE \div 4
GEM_SPEED == 10

NewGem(p) ==
    [x |-> IF p.direction = "right" THEN p.cx ELSE p.cx - PlayerHalfWidth,
     y |-> p.cy, dir |-> IF p.direction = "right" THEN 1 ELSE -1]

\* rect of the enemy k, of which cx, cy is the centre
EnemyRect(k, e) ==
    LET w == IF k = "ss" THEN TILE_SIZE ELSE TILE_SIZE - 8
    IN  Rect(e.cx - w \div 2, e.cy - w \div 2, w, w)

\* the rect test of CollectibleGem.collide (objects.py line 109); the mask
\* test that follows depends on the sprites
GemTouches(gem, k, e) ==
    colliderect(Rect(gem.x, gem.y, GEM_SIZE, GEM_SIZE), EnemyRect(k, e))

\* the player's rect, of which cx, cy is the centre
PlayerRect(p) ==
    Rect(p.cx - PlayerHalfWidth, p.cy - PlayerHalfWidth,
         2 * PlayerHalfWidth, 2 * PlayerHalfWidth)

\* main.py lines 723-731, from the i-th zone on: a validated zone the rect
\* lies strictly inside sets the flag and ends the loop, a validated zone
\* the rect only overlaps leaves it alone, any other zone clears it
RECURSIVE ZoneLoop(_, _, _, _)
ZoneLoop(zones, i, rect, p) ==
    IF i > Len(zones) THEN p
    ELSE LET zone_rect == zones[i][1]
             validated == zones[i][2]
         IN  IF validated /\ colliderect(zone_rect, rect)
             THEN IF /\ rect.x > zone_rect.x
                     /\ RectRight(rect) < RectRight(zone_rect)
                     /\ RectBottom(rect) < RectBottom(zone_rect)
                     /\ rect.y > zone_rect.y
                  THEN [p EXCEPT !.has_in_danger_zone = TRUE,
                                 !.in_danger_zone = TRUE]
                  ELSE ZoneLoop(zones, i + 1, rect, p)
             ELSE ZoneLoop(zones, i + 1, rect,
                           [p EXCEPT !.has_in_danger_zone = TRUE,
                                     !.in_danger_zone = FALSE])

PlayerPass(key, walks, stomp, at_end) ==
    /\ pc = "player"
    /\ pc' = "ammo"
    /\ idx' = 1
    /\ IF player.alive
       THEN LET p1 == PlayerUpdate(player)
                turned == IF key = "none" THEN p1 ELSE [p1 EXCEPT !.direction = key]
                p2 == IF ~walks \/ key = "none" THEN turned
                      ELSE [turned EXCEPT !.cx = IF key = "left"
                                                 THEN @ - x_vel("player")
                                                 ELSE @ + x_vel("player")]
                e0 == IF stomp = "none" THEN enemies["ft"] ELSE enemies[stomp]
                hits == stomp # "none" /\ (stomp = "ss" \/ ~e0.post_attack_recovery)
                e1 == IF hits
                      THEN EnemyGetHit(stomp, e0, 20, Attacker("player", p2.cx))
                      ELSE e0
                fires == p2.shoot /\ p2.shoot_cooldown = 0 /\ p2.ammo > 0
                         /\ p2.hit_anim_timer = 0
                shot == IF fires
                        THEN [p2 EXCEPT !.shoot_cooldown = 20, !.ammo = @ - 1,
                                        !.shoot = FALSE]
                        ELSE [p2 EXCEPT !.shoot = FALSE]
                p3 == ZoneLoop(danger_zones, 1, PlayerRect(shot), shot)
            IN  /\ (stomp # "none" => enemies[stomp].alive)
                /\ enemies' = IF hits THEN [enemies EXCEPT ![stomp] = e1] ELSE enemies
                /\ calls' = IF hits
                            THEN <<EnemyCall(stomp, e0, e1, 20,
                                             Attacker("player", p2.cx))>>
                            ELSE << >>
                /\ player_ammo_group' =
                      IF fires THEN Append(player_ammo_group, NewGem(p2))
                      ELSE player_ammo_group
                /\ IF at_end
                   THEN /\ player' = [p3 EXCEPT !.reached_level_end = TRUE]
                        /\ progress' = reset_level_progress
                        /\ screens' = [screens EXCEPT !.playing_level = FALSE,
                                                      !.next_level_screen = TRUE]
                   ELSE /\ player' = p3
                        /\ UNCHANGED <<progress, screens>>
       ELSE /\ key = "none" /\ ~walks /\ stomp = "none" /\ ~at_end
            /\ IF player.death_timer < death_duration
               THEN /\ player' = [handle_death(player) EXCEPT !.death_timer = @ + 1]
                    /\ UNCHANGED screens
               ELSE /\ player' = [player EXCEPT !.death_timer = 0]
                    /\ screens' = [screens EXCEPT !.death_screen = TRUE,
                                                  !.playing_level = FALSE]
            /\ calls' = << >>
            /\ UNCHANGED <<enemies, player_ammo_group, progress>>
    /\ UNCHANGED <<zoneVars, tick, player_grenade_group, cannon_ball_group,
                   pearl_group, health_gems, level_info>>

\* a sequence without its i-th element (Sprite.kill)
RemoveAt(seq, i) == SubSeq(seq, 1, i - 1) \o SubSeq(seq, i + 1, Len(seq))

(***************************************************************************)
(* main.py lines 768-769, PurpleGem.update (objects.py lines 181-199):     *)
(* one step per gem of player_ammo_group.  Inputs: whether the gem has     *)
(* left the screen (offscreen) and the enemies its mask overlaps (hits).   *)
(* The loop over the enemies goes on after a hit: every live enemy the gem *)
(* overlaps is hit.                                                        *)
(***************************************************************************)
\* the loop of lines 195-199 from the i-th enemy on; the result holds the
\* enemies, the get_hit calls made and whether the gem was killed
RECURSIVE GemLoop(_, _, _, _, _)
GemLoop(gem, hits, i, es, made) ==
    IF i > Len(SpeciesOrder) THEN [enemies |-> es, calls |-> made]
    ELSE LET k == SpeciesOrder[i]
         IN  IF k \in hits /\ es[k].alive
             THEN LET e1 == EnemyGetHit(k, es[k], 20,
                                        Attacker("gem", gem.x + GEM_SIZE \div 2))
                  IN  GemLoop(gem, hits, i + 1, [es EXCEPT ![k] = e1],
                              Append(made,
                                     EnemyCall(k, es[k], e1, 20,
                                         Attacker("gem", gem.x + GEM_SIZE \div 2))))
             ELSE GemLoop(gem, hits, i + 1, es, made)

AmmoPass(offscreen, hits) ==
    /\ pc = "ammo"
    /\ idx <= Len(player_ammo_group)
    /\ LET g0 == player_ammo_group[idx]
           gem == [g0 EXCEPT !.x = @ + GEM_SPEED * g0.dir]
           out == GemLoop(gem, hits, 1, enemies, << >>)
       IN  /\ \A k \in hits : enemies[k].in_group
           /\ enemies' = out.enemies
           /\ calls' = out.calls
           /\ IF offscreen \/ out.calls # << >>
              THEN /\ player_ammo_group' = RemoveAt(player_ammo_group, idx)
                   /\ UNCHANGED idx
              ELSE /\ idx' = idx + 1
                   /\ player_ammo_group' =
                         [player_ammo_group EXCEPT ![idx] = gem]
    /\ UNCHANGED <<zoneVars, screens, pc, tick, player, player_grenade_group,
                   cannon_ball_group, pearl_group, health_gems, level_info,
                   progress>>

AmmoDone ==
    /\ pc = "ammo"
    /\ idx > Len(player_ammo_group)
    /\ pc' = "grenades"
    /\ idx' = 1
    /\ calls' = << >>
    /\ UNCHANGED <<zoneVars, screens, tick, player, enemies, player_ammo_group,
                   player_grenade_group, cannon_ball_group, pearl_group,
                   health_gems, level_info, progress>>

(***************************************************************************)
(* CannonBall.update / Pearl.update with update_sprite (objects.py lines   *)
(* 307-328 and 437-459) on one shot.  Inputs: outcome is "fly", "offscreen"*)
(* or "hit" for a flying shot, and "hold" or "done" for an exploding one   *)
(* (update_sprite removes it when the explosion animation ends).           *)
(* The result is <<player, shot or "gone", calls>>.                        *)
(***************************************************************************)
ShotStep(shot, p, outcome, t) ==
    IF shot.state = "flying" /\ outcome = "hit"
    THEN LET p1 == IF p.alive THEN PlayerGetHit(p, 10, Attacker("shot", shot.cx))
                   ELSE p
         IN  [player |-> p1, gone |-> FALSE,
              shot |-> [shot EXCEPT !.state = "exploding", !.hit_at = t],
              calls |-> IF p.alive THEN <<Call("player", p, p1, 10)>> ELSE << >>]
    ELSE [player |-> p, gone |-> outcome \in {"offscreen", "done"},
          shot |-> shot, calls |-> << >>]

ShotOutcomes(shot) ==
    IF shot.state = "flying" THEN {"fly", "offscreen", "hit"} ELSE {"hold", "done"}

\* main.py lines 775-777
CannonBallPass(outcome) ==
    /\ pc = "cannon_balls"
    /\ idx <= Len(cannon_ball_group)
    /\ outcome \in ShotOutcomes(cannon_ball_group[idx])
    /\ LET r == ShotStep(cannon_ball_group[idx], player, outcome, tick)
       IN  /\ player' = r.player
           /\ calls' = r.calls
           /\ IF r.gone
              THEN /\ cannon_ball_group' = RemoveAt(cannon_ball_group, idx)
                   /\ UNCHANGED idx
              ELSE /\ cannon_ball_group' = [cannon_ball_group EXCEPT ![idx] = r.shot]
                   /\ idx' = idx + 1
    /\ UNCHANGED <<zoneVars, screens, pc, tick, enemies, player_ammo_group,
                   player_grenade_group, pearl_group, health_gems, level_info,
                   progress>>

CannonBallsDone ==
    /\ pc = "cannon_balls"
    /\ idx > Len(cannon_ball_group)
    /\ pc' = "pearls"
    /\ idx' = 1
    /\ calls' = << >>
    /\ UNCHANGED <<zoneVars, screens, tick, player, enemies, player_ammo_group,
                   player_grenade_group, cannon_ball_group, pearl_group,
                   health_gems, level_info, progress>>

\* main.py lines 779-781
PearlPass(outcome) ==
    /\ pc = "pearls"
    /\ idx <= Len(pearl_group)
    /\ outcome \in ShotOutcomes(pearl_group[idx])
    /\ LET r == ShotStep(pearl_group[idx], player, outcome, tick)
       IN  /\ player' = r.player
           /\ calls' = r.calls
           /\ IF r.gone
              THEN /\ pearl_group' = RemoveAt(pearl_group, idx)
                   /\ UNCHANGED idx
              ELSE /\ pearl_group' = [pearl_group EXCEPT ![idx] = r.shot]
                   /\ idx' = idx + 1
    /\ UNCHANGED <<zoneVars, screens, pc, tick, enemies, player_ammo_group,
                   player_grenade_group, cannon_ball_group, health_gems,
                   level_info, progress>>

PearlsDone ==
    /\ pc = "pearls"
    /\ idx > Len(pearl_group)
    /\ pc' = "gems"
    /\ idx' = 1
    /\ calls' = << >>
    /\ UNCHANGED <<zoneVars, screens, tick, player, enemies, player_ammo_group,
                   player_grenade_group, cannon_ball_group, pearl_group,
                   health_gems, level_info, progress>>

(***************************************************************************)
(* The blast of Grenade.update (objects.py lines 653-686).                 *)
(* max_damage_distance = hypot(w // 2, h // 2) + 10 and the distance       *)
(* hypot(dx, dy) are compared without square roots of the variable part:   *)
(* with S = (w // 2)^2 + (h // 2)^2 and D = dx^2 + dy^2,                   *)
(*     sqrt(D) <= r * (sqrt(S) + 10)  for r = 1, 1/2, 3/4                  *)
(* are D - S - 100 <= sqrt(400 S), 4D - S - 100 <= sqrt(400 S) and         *)
(* 16D - 9S - 900 <= sqrt(32400 S).                                        *)
(***************************************************************************)
BlastBand(g, cx, cy) ==
    LET S == (g.w \div 2) * (g.w \div 2) + (g.h \div 2) * (g.h \div 2)
        dx == cx - (g.x + g.w \div 2)
        dy == cy - (g.y + g.h \div 2)
        D == dx * dx + dy * dy
    IN  IF D - S - 100 > Isqrt(400 * S) THEN "none"
        ELSE IF 4 * D - S - 100 <= Isqrt(400 * S) THEN "inner"
        ELSE IF 16 * D - 9 * S - 900 <= Isqrt(32400 * S) THEN "middle"
        ELSE "outer"

\* the damage of the innermost band at every distance
EnemyBlastDamageFlat(band) == 120

EnemyBlastDamage(band) ==
    IF band = "inner" THEN 120 ELSE IF band = "middle" THEN 90 ELSE 60

PlayerBlastDamage(band) ==
    IF band = "inner" THEN 200 ELSE IF band = "middle" THEN 150 ELSE 100

\* the enemies a blast calls get_hit on
BlastReaches(g, e) == e.alive /\ BlastBand(g, e.cx, e.cy) # "none"

\* the blast applied once more on every update of the blast state
BlastPendingAlways(g) == TRUE

\* line 654: if not self._blast_applied
BlastPending(g) == ~g.blast_applied

(***************************************************************************)
(* main.py lines 771-773, Grenade.update and update_sprite (objects.py     *)
(* lines 577-691): one step per grenade of player_grenade_group.           *)
(***************************************************************************)
GrenadePass ==
    /\ pc = "grenades"
    /\ idx <= Len(player_grenade_group)
    /\ LET g0 == [player_grenade_group[idx] EXCEPT !.updates = @ + 1]
           att == Attacker("grenade", g0.x + g0.w \div 2)
       IN  IF g0.state = "thrown"
           THEN LET g1 == [g0 EXCEPT !.timer = @ - 1]
                    g2 == IF g1.timer <= 0 THEN start_explosion(g1)
                          ELSE ThrownPhysics(g1)
                IN  /\ player_grenade_group' =
                           [player_grenade_group EXCEPT ![idx] = g2]
                    /\ idx' = idx + 1
                    /\ calls' = << >>
                    /\ UNCHANGED <<player, enemies>>
           ELSE LET applies == BlastPending(g0)
                    reached == {k \in Species : applies /\ BlastReaches(g0, enemies[k])}
                    es == [k \in Species |->
                             IF k \in reached
                             THEN EnemyGetHit(k, enemies[k],
                                     EnemyBlastDamage(BlastBand(g0, enemies[k].cx,
                                                                enemies[k].cy)), att)
                             ELSE enemies[k]]
                    pband == BlastBand(g0, player.cx, player.cy)
                    phit == applies /\ player.alive /\ pband # "none"
                    p1 == IF phit
                          THEN PlayerGetHit(player, PlayerBlastDamage(pband), att)
                          ELSE player
                    ecalls == [i \in 1 .. 3 |->
                                 IF SpeciesOrder[i] \in reached
                                 THEN <<EnemyCall(SpeciesOrder[i],
                                             enemies[SpeciesOrder[i]],
                                             es[SpeciesOrder[i]],
                                             EnemyBlastDamage(BlastBand(g0,
                                                 enemies[SpeciesOrder[i]].cx,
                                                 enemies[SpeciesOrder[i]].cy)),
                                             att)>>
                                 ELSE << >>]
                    pcalls == IF phit
                              THEN <<Call("player", player, p1, PlayerBlastDamage(pband))>>
                              ELSE << >>
                    g1 == [g0 EXCEPT !.blast_applied = TRUE,
                                     !.hits = [t \in Targets |->
                                         IF t \in reached \/ (t = "player" /\ phit)
                                         THEN @[t] + 1 ELSE @[t]]]
                IN  /\ enemies' = es
                    /\ player' = p1
                    /\ calls' = ecalls[1] \o ecalls[2] \o ecalls[3] \o pcalls
                    /\ IF g1.blast_timer > 0
                       THEN /\ player_grenade_group' =
                                  [player_grenade_group EXCEPT
                                      ![idx] = [g1 EXCEPT !.blast_timer = @ - 1]]
                            /\ idx' = idx + 1
                       ELSE /\ player_grenade_group' =
                                  RemoveAt(player_grenade_group, idx)
                            /\ UNCHANGED idx
    /\ UNCHANGED <<zoneVars, screens, pc, tick, player_ammo_group,
                   cannon_ball_group, pearl_group, health_gems, level_info,
                   progress>>

GrenadesDone ==
    /\ pc = "grenades"
    /\ idx > Len(player_grenade_group)
    /\ pc' = "cannon_balls"
    /\ idx' = 1
    /\ calls' = << >>
    /\ UNCHANGED <<zoneVars, screens, tick, player, enemies, player_ammo_group,
                   player_grenade_group, cannon_ball_group, pearl_group,
                   health_gems, level_info, progress>>

(***************************************************************************)
(* main.py lines 786-788, CollectibleGem.update (objects.py lines          *)
(* 135-157) for the health gems.  Inputs: whether the player touches a     *)
(* gem (collect) and the value of randint(50, 150) (amount).               *)
(***************************************************************************)
GemPass(collect, amount) ==
    /\ pc = "gems"
    /\ pc' = "save"
    /\ IF collect /\ player.alive
       THEN /\ health_gems # {}
            /\ health_gems' = health_gems \ {SetMin(health_gems)}
            /\ player' = [player EXCEPT !.health =
                             IF @ + amount > player.max_health
                             THEN player.max_health ELSE @ + amount]
       ELSE /\ amount = 50
            /\ UNCHANGED <<health_gems, player>>
    /\ calls' = << >>
    /\ UNCHANGED <<zoneVars, screens, idx, tick, enemies, player_ammo_group,
                   player_grenade_group, cannon_ball_group, pearl_group,
                   level_info, progress>>

\* main.py lines 803-814: the end of a simulation tick
SaveProgress ==
    /\ pc = "save"
    /\ pc' = "events"
    /\ progress' = SavedRow(player, level_info, health_gems)
    /\ tick' = tick + 1
    /\ level_info' =
          [level_info EXCEPT !.tick_end =
              <<[health |-> [t \in {"player"} \cup Species |->
                               IF t = "player" THEN player.health
                               ELSE enemies[t].health],
                 gems |-> health_gems]>>]
    /\ calls' = << >>
    /\ UNCHANGED <<zoneVars, screens, idx, player, enemies, player_ammo_group,
                   player_grenade_group, cannon_ball_group, pearl_group,
                   health_gems>>

\* Player.launch_grenade (player.py lines 425-439)
launch_grenade(p) ==
    IF p.grenade_cooldown = 0 /\ p.grenades > 0 /\ p.hit_anim_timer = 0
    THEN [p EXCEPT !.grenade_cooldown = 100, !.grenades = @ - 1]
    ELSE p

\* the grenade launch_grenade adds to the group
LaunchedGrenade(p) ==
    IF p.direction = "right"
    THEN NewGrenade(p.cx, p.cy, 1)
    ELSE NewGrenade(p.cx - PlayerHalfWidth, p.cy, -1)

Events == {"none", "K_i", "K_t", "K_SPACE", "K_g_down", "K_g_up"}

(***************************************************************************)
(* main.py lines 928-978: the event loop, with at most one event per       *)
(* iteration.                                                              *)
(***************************************************************************)
HandleEvent(ev) ==
    /\ pc = "events"
    /\ pc' = "top"
    /\ calls' = << >>
    /\ screens' =
         IF ev = "K_i" /\ (screens.main_menu \/ screens.stats_page)
         THEN [screens EXCEPT !.main_menu = FALSE, !.stats_page = FALSE,
                              !.instructions_page = TRUE]
         ELSE IF ev = "K_t" /\ (screens.main_menu \/ screens.instructions_page)
         THEN [screens EXCEPT !.main_menu = FALSE, !.instructions_page = FALSE,
                              !.stats_page = TRUE]
         ELSE screens
    /\ LET live == screens.playing_level /\ player.alive
       IN  IF ev = "K_SPACE" /\ live
           THEN /\ player' = [player EXCEPT !.shoot = TRUE]
                /\ UNCHANGED player_grenade_group
           ELSE IF ev = "K_g_down" /\ live
           THEN /\ player' = [player EXCEPT !.grenade_charging = TRUE]
                /\ UNCHANGED player_grenade_group
           ELSE IF ev = "K_g_up" /\ live /\ player.grenade_charging
           THEN /\ player' = launch_grenade(player)
                /\ player_grenade_group' =
                      IF launch_grenade(player) # player
                      THEN Append(player_grenade_group, LaunchedGrenade(player))
                      ELSE player_grenade_group
           ELSE UNCHANGED <<player, player_grenade_group>>
    /\ UNCHANGED <<zoneVars, idx, tick, enemies, player_ammo_group,
                   cannon_ball_group, pearl_group, health_gems, level_info,
                   progress>>

(***************************************************************************)
(* start_level (main.py lines 442-460), followed, when `applied`, by       *)
(* apply_saved_progress with the row `row`.                                *)
(***************************************************************************)
BuildLevel(row, applied) ==
    LET layout == level_info.world_data
        fresh == [k \in Species |-> NewEnemy(k, layout)]
    IN  /\ enemies' = IF applied THEN ProgressEnemies(fresh, row) ELSE fresh
        /\ level_info' =
              IF applied
              THEN [NewLevel(layout) EXCEPT !.has_killed_ids = TRUE,
                                            !.killed_enemy_ids = row.killed_enemy_ids]
              ELSE NewLevel(layout)
        /\ health_gems' = IF applied THEN (1 .. NumHealthGems) \ row.collected_ids
                          ELSE 1 .. NumHealthGems
        /\ player_ammo_group' = << >>
        /\ player_grenade_group' = << >>
        /\ cannon_ball_group' = << >>
        /\ pearl_group' = << >>

BuiltPlayer(row, applied) ==
    LET layout == level_info.world_data
    IN  IF applied THEN ProgressPlayer(NewPlayer(layout), row) ELSE NewPlayer(layout)

LevelState == <<player, enemies, level_info, health_gems, player_ammo_group,
                player_grenade_group, cannon_ball_group, pearl_group>>

(***************************************************************************)
(* The menu branches of main().  Each draws its screen and reacts to the   *)
(* button clicked in this frame, if any.                                   *)
(***************************************************************************)
MenuFrame(active) ==
    /\ pc = "top"
    /\ ActiveScreen(screens) = active
    /\ pc' = "events"
    /\ calls' = << >>
    /\ UNCHANGED <<zoneVars, idx, tick>>

\* lines 589-596
MainMenu(click) ==
    /\ MenuFrame("main_menu")
    /\ screens' = IF click
                  THEN [screens EXCEPT !.main_menu = FALSE, !.levels_page = TRUE]
                  ELSE screens
    /\ UNCHANGED <<LevelState, progress>>

\* lines 598-606 and 649-657
InfoPage(click) ==
    /\ \/ /\ MenuFrame("instructions_page")
          /\ screens' = IF click
                        THEN [screens EXCEPT !.instructions_page = FALSE,
                                             !.main_menu = TRUE]
                        ELSE screens
       \/ /\ MenuFrame("stats_page")
          /\ screens' = IF click
                        THEN [screens EXCEPT !.stats_page = FALSE,
                                             !.main_menu = TRUE]
                        ELSE screens
    /\ UNCHANGED <<LevelState, progress>>

\* lines 608-647
LevelsPage(btn) ==
    /\ MenuFrame("levels_page")
    /\ IF btn = "back"
       THEN /\ screens' = [screens EXCEPT !.levels_page = FALSE, !.main_menu = TRUE]
            /\ UNCHANGED <<LevelState, progress>>
       ELSE IF btn = "level"
       THEN LET row == IF progress.reached_end THEN reset_level_progress
                       ELSE progress
            IN  /\ progress' = row
                /\ BuildLevel(row, TRUE)
                /\ player' = BuiltPlayer(row, TRUE)
                /\ screens' = [screens EXCEPT !.playing_level = TRUE,
                                              !.levels_page = FALSE]
       ELSE UNCHANGED <<screens, LevelState, progress>>

\* the player the death screen's start button puts back into the level
\* (lines 861-864)
ContinuePlayer(p) ==
    [p EXCEPT !.health = IF @ <= 0
                         THEN (IF p.max_health \div 2 > 1 THEN p.max_health \div 2 ELSE 1)
                         ELSE @,
              !.alive = TRUE, !.death_timer = 0]

\* lines 816-871
DeathScreen(btn) ==
    /\ MenuFrame("death_screen")
    /\ IF btn = "restart"
       THEN /\ progress' = reset_level_progress
            /\ BuildLevel(progress, FALSE)
            /\ player' = BuiltPlayer(progress, FALSE)
            /\ screens' = [screens EXCEPT !.next_level_screen = FALSE,
                                          !.playing_level = TRUE]
       ELSE IF btn = "exit"
       THEN /\ screens' = [screens EXCEPT !.death_screen = FALSE, !.main_menu = TRUE]
            /\ UNCHANGED <<LevelState, progress>>
       ELSE IF btn = "start"
       THEN /\ BuildLevel(progress, TRUE)
            /\ player' = ContinuePlayer(BuiltPlayer(progress, TRUE))
            /\ screens' = [screens EXCEPT !.death_screen = FALSE,
                                          !.playing_level = TRUE]
            /\ UNCHANGED progress
       ELSE UNCHANGED <<screens, LevelState, progress>>

\* lines 873-896; the game is modelled with its last level selected, so the
\* next-level button of lines 898-924 is not drawn
NextLevelScreen(btn) ==
    /\ MenuFrame("next_level_screen")
    /\ IF btn = "restart"
       THEN /\ progress' = reset_level_progress
            /\ BuildLevel(progress, FALSE)
            /\ player' = BuiltPlayer(progress, FALSE)
            /\ screens' = [screens EXCEPT !.next_level_screen = FALSE,
                                          !.playing_level = TRUE]
       ELSE IF btn = "exit"
       THEN /\ screens' = [screens EXCEPT !.next_level_screen = FALSE,
                                          !.main_menu = TRUE]
            /\ UNCHANGED <<LevelState, progress>>
       ELSE UNCHANGED <<screens, LevelState, progress>>

InitZones ==
    /\ constraint_rect_group = {}
    /\ danger_zones = << >>
    /\ world_loaded = FALSE

\* the rows the LevelProgress table can hold when the program starts: none,
\* or the row an earlier session saved
SavedHealths == {5, 100}

InitialRows ==
    {NoProgress} \cup
    { [exists |-> TRUE, health |-> h, ammo |-> START_AMMO,
       grenades |-> START_GRENADES, collected_ids |-> {},
       killed_enemy_ids |-> {}, reached_end |-> FALSE] : h \in SavedHealths }

\* main() up to line 583: start_level(1) has run and the main menu shows
InitGame(layouts, rows) ==
    /\ screens = [main_menu |-> TRUE, instructions_page |-> FALSE,
                  levels_page |-> FALSE, stats_page |-> FALSE,
                  playing_level |-> FALSE, death_screen |-> FALSE,
                  next_level_screen |-> FALSE]
    /\ pc = "top"
    /\ idx = 1
    /\ tick = 0
    /\ progress \in rows
    /\ \E layout \in layouts :
          /\ player = NewPlayer(layout)
          /\ enemies = [k \in Species |-> NewEnemy(k, layout)]
          /\ level_info = NewLevel(layout)
    /\ player_ammo_group = << >>
    /\ player_grenade_group = << >>
    /\ cannon_ball_group = << >>
    /\ pearl_group = << >>
    /\ health_gems = 1 .. NumHealthGems
    /\ calls = << >>
    /\ choices = 0

\* no astar_pathfinding call is running and no body is being followed
NoSearch == [phase |-> "idle"]
NoBody == [kind |-> "none"]
NoView == [k |-> "none"]
NoTooth == [k |-> "none"]

InitAux ==
    /\ search = NoSearch
    /\ body = NoBody
    /\ view = NoView
    /\ tooth = NoTooth

gameVars == <<screens, pc, idx, tick, player, enemies, player_ammo_group,
              player_grenade_group, cannon_ball_group, pearl_group,
              health_gems, level_info, progress, calls, choices>>

vars == <<constraint_rect_group, danger_zones, world_loaded, screens, pc, idx,
          tick, player, enemies, player_ammo_group, player_grenade_group,
          cannon_ball_group, pearl_group, health_gems, level_info, progress,
          calls, choices, search, body, view, tooth>>

(***************************************************************************)
(* The danger-zone specification: one level load over all level data.      *)
(***************************************************************************)
NextZones ==
    /\ ~world_loaded
    /\ \E data \in LevelData : process_data(data) /\ UNCHANGED <<gameVars, auxVars>>

InitLoad == InitZones /\ InitGame({BandsLayout}, {NoProgress}) /\ InitAux

SpecZones == InitLoad /\ [][NextZones]_vars

(***************************************************************************)
(* The game specification: MaxTicks simulation ticks in which at most      *)
(* MaxInputs inputs differ from "nothing happens" (no contact, no key, no  *)
(* sighting).  The outcome of a coin, the end of an animation, a shot      *)
(* meeting the player and the landing of a dead body are free.  Contacts   *)
(* being inputs, the places of the entities matter only to a grenade       *)
(* blast, which no grenade reaches within MaxTicks; one layout is enough   *)
(* here.                                                                   *)
(***************************************************************************)
MaxTicks == 3
MaxInputs == 2

Init == InitZones /\ InitGame({BandsLayout}, InitialRows) /\ InitAux

B(b) == IF b THEN 1 ELSE 0

Spend(n) ==
    /\ choices + n <= MaxInputs
    /\ choices' = choices + n
    /\ UNCHANGED auxVars

Next ==
    \/ \E click \in BOOLEAN : MainMenu(click) /\ UNCHANGED <<choices, auxVars>>
    \/ \E click \in BOOLEAN : InfoPage(click) /\ UNCHANGED <<choices, auxVars>>
    \/ \E btn \in {"none", "back", "level"} : LevelsPage(btn) /\ UNCHANGED <<choices, auxVars>>
    \/ \E btn \in {"none", "restart", "exit", "start"} :
          DeathScreen(btn) /\ UNCHANGED <<choices, auxVars>>
    \/ \E btn \in {"none", "restart", "exit"} :
          NextLevelScreen(btn) /\ UNCHANGED <<choices, auxVars>>
    \/ /\ tick < MaxTicks
       /\ \E vision \in {"none", "shoot", "attack"},
             coin, near, chase0, turns, lands, grounded, bullet \in BOOLEAN,
             grenade \in 0 .. 1 :
             /\ FierceToothPass(vision, coin, near, chase0, turns, lands, grounded,
                                bullet, grenade)
             /\ Spend(B(vision # "none") + B(turns) + B(lands) + B(bullet) + grenade
                      + B(~chase0 /\ enemies["ft"].alive /\ enemies["ft"].in_group))
    \/ \E vision \in {"none", "fire", "bite"}, touching \in BOOLEAN :
          SeashellPass(vision, touching)
              /\ Spend(B(vision # "none") + B(touching))
    \/ \E in_range, near, lands, grounded \in BOOLEAN :
          PinkStarPass(in_range, near, lands, grounded, << >>, "far")
              /\ Spend(B(in_range) + B(lands))
    \/ \E key \in {"none", "left", "right"}, stomp \in Species \cup {"none"},
          at_end \in BOOLEAN :
          PlayerPass(key, FALSE, stomp, at_end)
              /\ Spend(B(key # "none") + B(stomp # "none") + B(at_end))
    \/ \E offscreen \in BOOLEAN, hits \in SUBSET Species :
          AmmoPass(offscreen, hits) /\ Spend(B(offscreen) + B(hits # {}))
    \/ AmmoDone /\ UNCHANGED <<choices, auxVars>>
    \/ GrenadePass /\ UNCHANGED <<choices, auxVars>>
    \/ GrenadesDone /\ UNCHANGED <<choices, auxVars>>
    \/ \E outcome \in {"fly", "offscreen", "hit", "hold", "done"} :
          CannonBallPass(outcome) /\ Spend(B(outcome = "offscreen"))
    \/ CannonBallsDone /\ UNCHANGED <<choices, auxVars>>
    \/ \E outcome \in {"fly", "offscreen", "hit", "hold", "done"} :
          PearlPass(outcome) /\ Spend(B(outcome = "offscreen"))
    \/ PearlsDone /\ UNCHANGED <<choices, auxVars>>
    \/ \E collect \in BOOLEAN, amount \in {50, 150} :
          GemPass(collect, amount) /\ Spend(B(collect))
    \/ SaveProgress /\ UNCHANGED <<choices, auxVars>>
    \/ \E ev \in Events : HandleEvent(ev) /\ Spend(B(ev # "none"))

Spec == Init /\ [][Next]_vars

(***************************************************************************)
(* The grenade specification: one level played for MaxGrenadeTicks ticks   *)
(* by a player who throws grenades as fast as launch_grenade lets him:     *)
(* he presses the grenade key once and releases it whenever a launch is    *)
(* possible.  He may turn round during the first InputTicks ticks.  The    *)
(* enemies see nothing and touch nobody, a shot leaves the screen at its   *)
(* first update and a dead body lands at once.                             *)
(***************************************************************************)
MaxGrenadeTicks == 225
InputTicks == 1

InitGrenade == InitZones /\ InitGame(Layouts, {NoProgress}) /\ InitAux

Falls(k) == enemies[k].in_group /\ ~enemies[k].alive /\ ~enemies[k].death_handled

EagerEvent ==
    IF ~(screens.playing_level /\ player.alive) THEN "none"
    ELSE IF ~player.grenade_charging THEN "K_g_down"
    ELSE IF launch_grenade(player) # player THEN "K_g_up"
    ELSE "none"

NextGrenade ==
    \/ MainMenu(TRUE) /\ UNCHANGED <<choices, auxVars>>
    \/ LevelsPage("level") /\ UNCHANGED <<choices, auxVars>>
    \/ /\ tick < MaxGrenadeTicks
       /\ FierceToothPass("none", FALSE, FALSE, TRUE, FALSE, FALSE, Falls("ft"),
                          FALSE, 0)
       /\ UNCHANGED <<choices, auxVars>>
    \/ SeashellPass("none", FALSE) /\ UNCHANGED <<choices, auxVars>>
    \/ PinkStarPass(FALSE, FALSE, FALSE, Falls("ps"), << >>, "far") /\ UNCHANGED <<choices, auxVars>>
    \/ \E key \in {"none", "left", "right"} :
          /\ key # "none" => tick < InputTicks
          /\ PlayerPass(key, FALSE, "none", FALSE)
          /\ UNCHANGED <<choices, auxVars>>
    \/ AmmoDone /\ UNCHANGED <<choices, auxVars>>
    \/ GrenadePass /\ UNCHANGED <<choices, auxVars>>
    \/ GrenadesDone /\ UNCHANGED <<choices, auxVars>>
    \/ CannonBallPass("offscreen") /\ UNCHANGED <<choices, auxVars>>
    \/ CannonBallsDone /\ UNCHANGED <<choices, auxVars>>
    \/ PearlPass("offscreen") /\ UNCHANGED <<choices, auxVars>>
    \/ PearlsDone /\ UNCHANGED <<choices, auxVars>>
    \/ GemPass(FALSE, 50) /\ UNCHANGED <<choices, auxVars>>
    \/ SaveProgress /\ UNCHANGED <<choices, auxVars>>
    \/ HandleEvent(EagerEvent) /\ UNCHANGED <<choices, auxVars>>

SpecGrenade == InitGrenade /\ [][NextGrenade]_vars

(***************************************************************************)
(* The restart specification: the death screen stands after the player     *)
(* died in a level entered from the levels page, the enemies untouched.    *)
(* The player clicks Restart or Start and then plays as in the grenade     *)
(* specification.                                                          *)
(***************************************************************************)
\* the player at the end of a death: check_alive has cleared alive and
\* main has set death_timer back to 0 (main.py lines 753-757)
DeadPlayer(layout) ==
    [NewPlayer(layout) EXCEPT !.health = 0, !.alive = FALSE]

\* level_info after apply_saved_progress with no row (main.py line 487)
EnteredLevel(layout) ==
    [NewLevel(layout) EXCEPT !.has_killed_ids = TRUE]

InitRestart ==
    /\ InitZones
    /\ InitAux
    /\ screens = [main_menu |-> FALSE, instructions_page |-> FALSE,
                  levels_page |-> FALSE, stats_page |-> FALSE,
                  playing_level |-> FALSE, death_screen |-> TRUE,
                  next_level_screen |-> FALSE]
    /\ pc = "top"
    /\ idx = 1
    /\ tick = 0
    /\ \E layout \in Layouts :
          /\ player = DeadPlayer(layout)
          /\ enemies = [k \in Species |-> NewEnemy(k, layout)]
          /\ level_info = EnteredLevel(layout)
          /\ progress = SavedRow(DeadPlayer(layout), EnteredLevel(layout),
                                 1 .. NumHealthGems)
    /\ player_ammo_group = << >>
    /\ player_grenade_group = << >>
    /\ cannon_ball_group = << >>
    /\ pearl_group = << >>
    /\ health_gems = 1 .. NumHealthGems
    /\ calls = << >>
    /\ choices = 0

NextRestart ==
    \/ \E btn \in {"restart", "start"} :
          DeathScreen(btn) /\ UNCHANGED <<choices, auxVars>>
    \/ /\ tick < MaxGrenadeTicks
       /\ FierceToothPass("none", FALSE, FALSE, TRUE, FALSE, FALSE, Falls("ft"),
                          FALSE, 0)
       /\ UNCHANGED <<choices, auxVars>>
    \/ SeashellPass("none", FALSE) /\ UNCHANGED <<choices, auxVars>>
    \/ PinkStarPass(FALSE, FALSE, FALSE, Falls("ps"), << >>, "far") /\ UNCHANGED <<choices, auxVars>>
    \/ \E key \in {"none", "left", "right"} :
          /\ key # "none" => tick < InputTicks
          /\ PlayerPass(key, FALSE, "none", FALSE)
          /\ UNCHANGED <<choices, auxVars>>
    \/ AmmoDone /\ UNCHANGED <<choices, auxVars>>
    \/ GrenadePass /\ UNCHANGED <<choices, auxVars>>
    \/ GrenadesDone /\ UNCHANGED <<choices, auxVars>>
    \/ CannonBallPass("offscreen") /\ UNCHANGED <<choices, auxVars>>
    \/ CannonBallsDone /\ UNCHANGED <<choices, auxVars>>
    \/ PearlPass("offscreen") /\ UNCHANGED <<choices, auxVars>>
    \/ PearlsDone /\ UNCHANGED <<choices, auxVars>>
    \/ GemPass(FALSE, 50) /\ UNCHANGED <<choices, auxVars>>
    \/ SaveProgress /\ UNCHANGED <<choices, auxVars>>
    \/ HandleEvent(EagerEvent) /\ UNCHANGED <<choices, auxVars>>

SpecRestart == InitRestart /\ [][NextRestart]_vars

(***************************************************************************)
(* The lair specification: a level with one danger zone, marked by ORANGE  *)
(* tiles on the four corners of the tile grid, and two PURPLE waypoints of *)
(* which the lower leads up to the upper and not back.  The player stands  *)
(* inside the zone, one step from its right edge and one step from the     *)
(* PinkStar's reach; he walks as he likes for LairInputTicks ticks and     *)
(* then stands still.  Whether the PinkStar reaches him follows from the   *)
(* two centres; the path search yields any path of the waypoint graph.     *)
(* FierceTooth and SeashellPearl see nothing and touch nobody.             *)
(***************************************************************************)
MaxLairTicks == 355
LairInputTicks == 3

LairTiles ==
    { <<c, ORANGE_TILE>> : c \in {0, GridCols - 1} \X {0, GridRows - 1} }
        \cup { <<<<1, 0>>, PURPLE_TILE>>, <<<<1, 2>>, PURPLE_TILE>> }

LairGroup ==
    { ConstraintRect(t[1][1] * TILE_SIZE, t[1][2] * TILE_SIZE,
                     TILE_SIZE, TILE_SIZE, t[2]) : t \in LairTiles }

LairLayout ==
    [player |-> <<102, 60>>,
     ft |-> <<400, 336>>, ss |-> <<370, 376>>, ps |-> <<75, 60>>]

\* what astar_pathfinding can return on the waypoints of the lair
LairPaths ==
    { << >>, << <<60, 20>> >>, << <<60, 100>> >>, << <<60, 100>>, <<60, 20>> >> }

\* PinkStar.update: distance <= attack_range (line 613), and the melee test
\* distance <= attack_range // 2 and height_difference < 10 (line 703)
InRange(p, e) ==
    (p.cx - e.cx) * (p.cx - e.cx) + (p.cy - e.cy) * (p.cy - e.cy)
        <= attack_range * attack_range

Near(p, e) ==
    /\ (p.cx - e.cx) * (p.cx - e.cx) + (p.cy - e.cy) * (p.cy - e.cy)
           <= (attack_range \div 2) * (attack_range \div 2)
    /\ Abs(p.cy - e.cy) < 10

InitLair ==
    /\ constraint_rect_group = LairGroup
    /\ danger_zones = compute_danger_zones(LairGroup)
    /\ world_loaded = TRUE
    /\ InitGame({LairLayout}, {NoProgress})
    /\ InitAux

NextLair ==
    \/ MainMenu(TRUE) /\ UNCHANGED <<choices, auxVars>>
    \/ LevelsPage("level") /\ UNCHANGED <<choices, auxVars>>
    \/ /\ tick < MaxLairTicks
       /\ FierceToothPass("none", FALSE, FALSE, TRUE, FALSE, FALSE, Falls("ft"),
                          FALSE, 0)
       /\ UNCHANGED <<choices, auxVars>>
    \/ SeashellPass("none", FALSE) /\ UNCHANGED <<choices, auxVars>>
    \/ \E path_nodes \in LairPaths, arrives \in {"far", "close", "under"} :
          /\ tick >= LairInputTicks => path_nodes = << >> /\ arrives = "far"
          /\ PinkStarPass(enemies["ps"].alive /\ InRange(player, enemies["ps"]),
                          enemies["ps"].alive /\ Near(player, enemies["ps"]),
                          FALSE, Falls("ps"), path_nodes, arrives)
          /\ UNCHANGED <<choices, auxVars>>
    \/ \E key \in {"none", "left", "right"} :
          /\ key # "none" => tick < LairInputTicks
          /\ PlayerPass(key, player.alive, "none", FALSE)
          /\ UNCHANGED <<choices, auxVars>>
    \/ AmmoDone /\ UNCHANGED <<choices, auxVars>>
    \/ GrenadesDone /\ UNCHANGED <<choices, auxVars>>
    \/ CannonBallsDone /\ UNCHANGED <<choices, auxVars>>
    \/ PearlsDone /\ UNCHANGED <<choices, auxVars>>
    \/ GemPass(FALSE, 50) /\ UNCHANGED <<choices, auxVars>>
    \/ SaveProgress /\ UNCHANGED <<choices, auxVars>>
    \/ HandleEvent("none") /\ UNCHANGED <<choices, auxVars>>

SpecLair == InitLair /\ [][NextLair]_vars

(***************************************************************************)
(* The shell specification: the player stands on the ground of a           *)
(* SeashellPearl, inside its bite range and its cone, and walks left and   *)
(* right as he likes without leaving its reach.  What the shell sees and   *)
(* whether it is touched follow from the two rects.  FierceTooth and       *)
(* PinkStar see nothing and touch nobody.                                  *)
(***************************************************************************)
MaxShellTicks == 30
ShellReach == 24

ShellLayout ==
    [player |-> <<176, 384>>,
     ft |-> <<700, 336>>, ss |-> <<200, 380>>, ps |-> <<700, 256>>]

InitShell == InitZones /\ InitGame({ShellLayout}, {NoProgress}) /\ InitAux

NextShell ==
    \/ MainMenu(TRUE) /\ UNCHANGED <<choices, auxVars>>
    \/ LevelsPage("level") /\ UNCHANGED <<choices, auxVars>>
    \/ /\ tick < MaxShellTicks
       /\ FierceToothPass("none", FALSE, FALSE, TRUE, FALSE, FALSE, Falls("ft"),
                          FALSE, 0)
       /\ UNCHANGED <<choices, auxVars>>
    \/ /\ SeashellPass(seashell_check_vision_cone(enemies["ss"], player),
                       SeashellTouches(enemies["ss"], player))
       /\ UNCHANGED <<choices, auxVars>>
    \/ PinkStarPass(FALSE, FALSE, FALSE, Falls("ps"), << >>, "far")
          /\ UNCHANGED <<choices, auxVars>>
    \/ \E key \in {"none", "left", "right"} :
          /\ key = "left" => player.cx - x_vel("player") >= enemies["ss"].cx - ShellReach
          /\ key = "right" => player.cx + x_vel("player") <= enemies["ss"].cx + ShellReach
          /\ PlayerPass(key, player.alive, "none", FALSE)
          /\ UNCHANGED <<choices, auxVars>>
    \/ AmmoDone /\ UNCHANGED <<choices, auxVars>>
    \/ GrenadesDone /\ UNCHANGED <<choices, auxVars>>
    \/ CannonBallsDone /\ UNCHANGED <<choices, auxVars>>
    \/ PearlsDone /\ UNCHANGED <<choices, auxVars>>
    \/ GemPass(FALSE, 50) /\ UNCHANGED <<choices, auxVars>>
    \/ SaveProgress /\ UNCHANGED <<choices, auxVars>>
    \/ HandleEvent("none") /\ UNCHANGED <<choices, auxVars>>

SpecShell == InitShell /\ [][NextShell]_vars

(***************************************************************************)
(* The backshot specification: the player starts behind the               *)
(* SeashellPearl, at its height and outside its bite range, walks as he    *)
(* likes within BackshotReach of it and shoots when he likes.  The masks   *)
(* of a gem and of an enemy are taken to fill their rects, so a gem hits   *)
(* where the rects overlap; it leaves the screen GemFlight from the shell. *)
(***************************************************************************)
MaxBackshotTicks == 10
BackshotReach == 59
GemFlight == 60

BackshotLayout ==
    [player |-> <<259, 384>>,
     ft |-> <<700, 336>>, ss |-> <<200, 380>>, ps |-> <<700, 256>>]

InitBackshot == InitZones /\ InitGame({BackshotLayout}, {NoProgress}) /\ InitAux

NextBackshot ==
    \/ MainMenu(TRUE) /\ UNCHANGED <<choices, auxVars>>
    \/ LevelsPage("level") /\ UNCHANGED <<choices, auxVars>>
    \/ /\ tick < MaxBackshotTicks
       /\ FierceToothPass("none", FALSE, FALSE, TRUE, FALSE, FALSE, Falls("ft"),
                          FALSE, 0)
       /\ UNCHANGED <<choices, auxVars>>
    \/ /\ SeashellPass(seashell_check_vision_cone(enemies["ss"], player),
                       SeashellTouches(enemies["ss"], player))
       /\ UNCHANGED <<choices, auxVars>>
    \/ PinkStarPass(FALSE, FALSE, FALSE, Falls("ps"), << >>, "far")
          /\ UNCHANGED <<choices, auxVars>>
    \/ \E key \in {"none", "left", "right"} :
          /\ key = "left" =>
                player.cx - x_vel("player") >= enemies["ss"].cx - BackshotReach
          /\ key = "right" =>
                player.cx + x_vel("player") <= enemies["ss"].cx + BackshotReach
          /\ PlayerPass(key, player.alive, "none", FALSE)
          /\ UNCHANGED <<choices, auxVars>>
    \/ \E offscreen \in BOOLEAN, hits \in SUBSET Species :
          /\ AmmoPass(offscreen, hits)
          /\ LET g0 == player_ammo_group[idx]
                 gem == [g0 EXCEPT !.x = @ + GEM_SPEED * g0.dir]
             IN  /\ hits = {k \in Species : /\ enemies[k].in_group
                                             /\ GemTouches(gem, k, enemies[k])}
                 /\ offscreen = (Abs(gem.x - enemies["ss"].cx) > GemFlight)
          /\ UNCHANGED <<choices, auxVars>>
    \/ AmmoDone /\ UNCHANGED <<choices, auxVars>>
    \/ GrenadesDone /\ UNCHANGED <<choices, auxVars>>
    \/ CannonBallsDone /\ UNCHANGED <<choices, auxVars>>
    \/ \E outcome \in {"fly", "offscreen", "hit", "hold", "done"} :
          PearlPass(outcome) /\ UNCHANGED <<choices, auxVars>>
    \/ PearlsDone /\ UNCHANGED <<choices, auxVars>>
    \/ GemPass(FALSE, 50) /\ UNCHANGED <<choices, auxVars>>
    \/ SaveProgress /\ UNCHANGED <<choices, auxVars>>
    \/ \E ev \in {"none", "K_SPACE"} :
          HandleEvent(ev) /\ UNCHANGED <<choices, auxVars>>

SpecBackshot == InitBackshot /\ [][NextBackshot]_vars

(***************************************************************************)
(* The flight specification: one level in which projectiles are spawned    *)
(* at its start (in the first ShootTicks ticks the FierceTooth shoots a    *)
(* CannonBall and the SeashellPearl fires a Pearl, and the player may turn *)
(* and shoot a PurpleGem; in the first SpawnTicks ticks he may throw a     *)
(* Grenade) and which is then played on until MaxFlightTicks.  Every       *)
(* projectile moves as its update moves it: whether it has left the screen *)
(* and whether its explosion has ended follow from its position and its    *)
(* animation counter; a hit is possible where the rects overlap (the mask  *)
(* test that follows depends on the sprites).                              *)
(***************************************************************************)
SpawnTicks == 3
ShootTicks == 1
MaxFlightTicks == 200

\* constants.WIDTH, the width of the screen
WIDTH == 800

\* CannonBall.ANIMATION_DELAY, Pearl.ANIMATION_DELAY
ANIMATION_DELAY == 3

\* the frames of the sheets "Cannon Ball Explosion" and "Pearl Explosion"
ExplosionFrames == 4

\* CannonBall.speed, Pearl.speed
ShotSpeed(k) == IF k = "ft" THEN 12 ELSE 5

\* utils.load_ammo_sprites: the width of a flying CannonBall, of a Pearl
ShotSize(k) == IF k = "ft" THEN TILE_SIZE \div 4 ELSE TILE_SIZE \div 2

\* the left edge at which FierceTooth.shoot / SeashellPearl.fire place the
\* shot
ShotStart(k, shot) ==
    IF k = "ft"
    THEN IF shot.dir = 1 THEN shot.cx ELSE shot.cx - (TILE_SIZE - 8) \div 2
    ELSE IF shot.dir = 1 THEN shot.cx - TILE_SIZE \div 2 - 2
         ELSE shot.cx - TILE_SIZE \div 2 + 5

\* the rect of a flying shot after its update of tick t: it is updated once
\* in every tick from the one it was fired in
ShotRect(k, shot, t) ==
    Rect(ShotStart(k, shot) + shot.dir * ShotSpeed(k) * (t - shot.born + 1),
         shot.cy, ShotSize(k), ShotSize(k))

\* the test of the right edge only
ShotOffscreenRight(k, shot, t) == ShotRect(k, shot, t).x > WIDTH

\* objects.py lines 318 and 448
ShotOffscreen(k, shot, t) ==
    \/ RectRight(ShotRect(k, shot, t)) < 0
    \/ ShotRect(k, shot, t).x > WIDTH

\* update_sprite on an exploding shot (lines 299-303 and 429-433):
\* start_explosion has set animation_count to 0 in the tick hit_at, and
\* every update_sprite since has added 1
ExplosionDone(shot, t) ==
    (t - shot.hit_at) \div ANIMATION_DELAY >= ExplosionFrames

\* the outcomes the update of tick t can have for the shot of species k
FlightOutcomes(k, shot, t, p) ==
    IF shot.state = "exploding"
    THEN IF ExplosionDone(shot, t) THEN {"done"} ELSE {"hold"}
    ELSE IF ShotOffscreen(k, shot, t) THEN {"offscreen"}
    ELSE IF colliderect(ShotRect(k, shot, t), PlayerRect(p))
    THEN {"fly", "hit"}
    ELSE {"fly"}

\* objects.py line 192, on the gem after its move
GemOffscreen(gem) == gem.x + GEM_SIZE < 0 \/ gem.x > WIDTH

InitFlight == InitZones /\ InitGame({BandsLayout}, {NoProgress}) /\ InitAux

NextFlight ==
    \/ MainMenu(TRUE) /\ UNCHANGED <<choices, auxVars>>
    \/ LevelsPage("level") /\ UNCHANGED <<choices, auxVars>>
    \/ /\ tick < MaxFlightTicks
       /\ LET shoots == tick < ShootTicks
          IN  FierceToothPass(IF shoots THEN "shoot" ELSE "none", shoots,
                              FALSE, TRUE, FALSE, FALSE, Falls("ft"), FALSE, 0)
       /\ UNCHANGED <<choices, auxVars>>
    \/ /\ SeashellPass(IF tick < ShootTicks THEN "fire" ELSE "none", FALSE)
       /\ UNCHANGED <<choices, auxVars>>
    \/ PinkStarPass(FALSE, FALSE, FALSE, Falls("ps"), << >>, "far")
          /\ UNCHANGED <<choices, auxVars>>
    \/ \E key \in {"none", "left", "right"} :
          /\ key # "none" => tick < ShootTicks
          /\ PlayerPass(key, FALSE, "none", FALSE)
          /\ UNCHANGED <<choices, auxVars>>
    \/ \E offscreen \in BOOLEAN, hits \in SUBSET Species :
          /\ AmmoPass(offscreen, hits)
          /\ LET g0 == player_ammo_group[idx]
                 gem == [g0 EXCEPT !.x = @ + GEM_SPEED * g0.dir]
             IN  /\ \A k \in hits : GemTouches(gem, k, enemies[k])
                 /\ offscreen = GemOffscreen(gem)
          /\ UNCHANGED <<choices, auxVars>>
    \/ AmmoDone /\ UNCHANGED <<choices, auxVars>>
    \/ GrenadePass /\ UNCHANGED <<choices, auxVars>>
    \/ GrenadesDone /\ UNCHANGED <<choices, auxVars>>
    \/ \E outcome \in {"fly", "offscreen", "hit", "hold", "done"} :
          /\ CannonBallPass(outcome)
          /\ outcome \in FlightOutcomes("ft", cannon_ball_group[idx], tick, player)
          /\ UNCHANGED <<choices, auxVars>>
    \/ CannonBallsDone /\ UNCHANGED <<choices, auxVars>>
    \/ \E outcome \in {"fly", "offscreen", "hit", "hold", "done"} :
          /\ PearlPass(outcome)
          /\ outcome \in FlightOutcomes("ss", pearl_group[idx], tick, player)
          /\ UNCHANGED <<choices, auxVars>>
    \/ PearlsDone /\ UNCHANGED <<choices, auxVars>>
    \/ GemPass(FALSE, 50) /\ UNCHANGED <<choices, auxVars>>
    \/ SaveProgress /\ UNCHANGED <<choices, auxVars>>
    \/ \E ev \in {"none", "K_SPACE", "K_g_down", "K_g_up"} :
          /\ ev # "none" => tick < SpawnTicks
          /\ ev = "K_SPACE" => tick < ShootTicks
          /\ HandleEvent(ev)
          /\ UNCHANGED <<choices, auxVars>>

\* main's loop runs one pass after the other for as long as the program
\* runs: a step that is possible is taken
SpecFlight == InitFlight /\ [][NextFlight]_vars /\ WF_vars(NextFlight)

(***************************************************************************)
(* PinkStar's pathfinding over the purple waypoints (pink_star.py).  A     *)
(* position is the pair <<x, y>> of a purple rectangle's centre; a Node is *)
(* a record whose parent field holds the chain of its ancestors' positions *)
(* from the start node on, which is what following .parent yields.         *)
(***************************************************************************)
MaxPurple == 4

\* pygame.Rect.centerx, .centery
RectCentre(r) == <<r.x + r.w \div 2, r.y + r.h \div 2>>

\* the purple rectangles a level can hold: World.process_data makes one
\* per purple tile
PurpleRects ==
    { { ConstraintRect(c[1] * TILE_SIZE, c[2] * TILE_SIZE, TILE_SIZE,
                       TILE_SIZE, PURPLE_TILE) : c \in s } :
        s \in {t \in SUBSET Cells : Cardinality(t) \in 1 .. MaxPurple} }

heuristic(a, b) == Abs(a[1] - b[1]) + Abs(a[2] - b[2])

\* the links with the jump allowed downwards as well as upwards
get_purple_rect_connections_both_ways(purple_rects) ==
    [pos \in {RectCentre(pr.rect) : pr \in purple_rects} |->
        { other_pos \in {RectCentre(pr.rect) : pr \in purple_rects} :
            /\ other_pos # pos
            /\ \/ Abs(pos[2] - other_pos[2]) < 10
               \/ /\ Abs(pos[1] - other_pos[1]) < TILE_SIZE * 2
                  /\ Abs(pos[2] - other_pos[2]) <= (TILE_SIZE * 2) + 20 }]

\* two rectangles are connected when they are level, or when the other one
\* is above, less than two tiles aside and at most two tiles and 20 up
get_purple_rect_connections(purple_rects) ==
    [pos \in {RectCentre(pr.rect) : pr \in purple_rects} |->
        { other_pos \in {RectCentre(pr.rect) : pr \in purple_rects} :
            /\ other_pos # pos
            /\ \/ Abs(pos[2] - other_pos[2]) < 10
               \/ /\ Abs(pos[1] - other_pos[1]) < TILE_SIZE * 2
                  /\ other_pos[2] < pos[2]
                  /\ pos[2] - other_pos[2] <= (TILE_SIZE * 2) + 20 }]

\* every other waypoint counts as connected
neighboursAnyRect(connections, position) == DOMAIN connections \ {position}

\* connections.get(position, [])
neighbours(connections, position) ==
    IF position \in DOMAIN connections THEN connections[position] ELSE {}

\* move_cost of lines 272-273: 2 for a jump, 1 for a level move
move_cost(position, next_pos) ==
    IF Abs(position[2] - next_pos[2]) > 10 THEN 2 ELSE 1

\* a node that forgets the chain of its parents
NodeWithoutParent(position, parent, g, goal_pos) ==
    [position |-> position, parent |-> << >>, g |-> g,
     f |-> g + heuristic(position, goal_pos)]

Node(position, parent, g, goal_pos) ==
    [position |-> position, parent |-> parent, g |-> g,
     f |-> g + heuristic(position, goal_pos)]

\* the call: the early returns of lines 236-240, else the start node is
\* pushed on the open set
astar_pathfinding(start_pos, goal_pos, purple_rects) ==
    /\ search.phase = "idle"
    /\ search' =
         IF start_pos = goal_pos
         THEN [phase |-> "returned", purple_rects |-> purple_rects,
               start_pos |-> start_pos, goal_pos |-> goal_pos,
               open_set |-> {}, closed_set |-> {}, result |-> <<start_pos>>]
         ELSE [phase |-> "loop", purple_rects |-> purple_rects,
               start_pos |-> start_pos, goal_pos |-> goal_pos,
               open_set |-> {[position |-> start_pos, parent |-> << >>,
                              g |-> 0, f |-> 0]},
               closed_set |-> {}, result |-> "None"]

\* the open set after the neighbours of current_node have been looked at:
\* a closed neighbour is skipped, an open node at the same position stays
\* unless the new one is strictly cheaper
Expanded(open_set, closed_set, current_node, connections, goal_pos) ==
    LET fresh == { Node(next_pos, Append(current_node.parent, current_node.position),
                        current_node.g
                          + (IF Abs(current_node.position[2] - next_pos[2]) > 10
                             THEN 2 ELSE 1),
                        goal_pos) :
                   next_pos \in neighbours(connections, current_node.position)
                                    \ closed_set }
        found_better(n) == \E o \in open_set :
                              o.position = n.position /\ o.g <= n.g
        pushed == {n \in fresh : ~found_better(n)}
    IN  {o \in open_set : \A n \in pushed : n.position # o.position} \cup pushed

\* one iteration of `while open_set`: heappop yields a node of least f
AstarIteration ==
    /\ search.phase = "loop"
    /\ search.open_set # {}
    /\ \E current_node \in search.open_set :
          /\ \A o \in search.open_set : current_node.f <= o.f
          /\ LET closed_set == search.closed_set \cup {current_node.position}
                 rest == search.open_set \ {current_node}
             IN  search' =
                   IF current_node.position = search.goal_pos
                   THEN [search EXCEPT !.phase = "returned",
                                       !.closed_set = closed_set,
                                       !.open_set = rest,
                                       !.result = Append(current_node.parent,
                                                         current_node.position)]
                   ELSE [search EXCEPT
                           !.closed_set = closed_set,
                           !.open_set = Expanded(rest, closed_set, current_node,
                               get_purple_rect_connections(search.purple_rects),
                               search.goal_pos)]

\* the loop ends with the open set empty: return None
AstarExhausted ==
    /\ search.phase = "loop"
    /\ search.open_set = {}
    /\ search' = [search EXCEPT !.phase = "returned", !.result = "None"]

(***************************************************************************)
(* The pathfinding specification: one astar_pathfinding call for every     *)
(* set of at most MaxPurple purple rectangles on the grid and every pair   *)
(* of them as start and goal (find_nearest_purple_rect yields centres of   *)
(* purple rectangles).                                                     *)
(***************************************************************************)
InitAstar == InitZones /\ InitGame({BandsLayout}, {NoProgress}) /\ InitAux

NextAstar ==
    \/ \E purple_rects \in PurpleRects :
          \E start, goal \in purple_rects :
             /\ astar_pathfinding(RectCentre(start.rect), RectCentre(goal.rect),
                                  purple_rects)
             /\ UNCHANGED <<zoneVars, gameVars, body, view, tooth>>
    \/ AstarIteration /\ UNCHANGED <<zoneVars, gameVars, body, view, tooth>>
    \/ AstarExhausted /\ UNCHANGED <<zoneVars, gameVars, body, view, tooth>>

SpecAstar == InitAstar /\ [][NextAstar]_vars

(***************************************************************************)
(* Movement: the handle_movement methods of enemies.py, fiercetooth.py,    *)
(* pink_star.py and player.py for one body over one flat obstacle.         *)
(* position.x is a whole number of pixels (every horizontal speed is one); *)
(* position.y and y_vel are kept in tenths of a pixel, the unit of GRAVITY *)
(* 0.7, so int(position.y) is y \div 10.  rect is the pygame.Rect the      *)
(* collision tests read.  A sprite frame is taken as square: width and     *)
(* height are the scale_width of utils.load_enemy_sprites.                 *)
(***************************************************************************)
WORLD_WIDTH == GridCols * TILE_SIZE

ENEMY_GRAVITY == 7
MAX_FALL == 100
PLAYER_GROUND == 400
SPRINT_SPEED == 5

Kinds == {"enemy", "ft", "ps", "player"}

scale_width(kind) == IF kind = "enemy" THEN TILE_SIZE ELSE TILE_SIZE - 8

\* the obstacle: one flat floor across the world, on the tile row FloorRow;
\* for a body on the ledge, the leftmost tile of that floor only
FloorRow == GridRows - 1
Floor == Rect(0, FloorRow * TILE_SIZE, WORLD_WIDTH, TILE_SIZE)
Ledge == Rect(0, FloorRow * TILE_SIZE, TILE_SIZE, TILE_SIZE)
Obstacle == IF body.kind # "none" /\ body.ledge THEN Ledge ELSE Floor

\* Enemy.__init__ / Player.__init__ at the tile (col, row)
NewBody(kind, col, row) ==
    [kind |-> kind, x |-> col * TILE_SIZE, y |-> row * TILE_SIZE * 10,
     rect |-> Rect(col * TILE_SIZE, row * TILE_SIZE,
                   scale_width(kind), scale_width(kind)),
     y_vel |-> 0, direction |-> IF kind = "player" THEN "right" ELSE "left",
     state |-> "idle", on_ground |-> FALSE, moved |-> FALSE,
     jump_count |-> 0, ledge |-> FALSE, air_jump |-> FALSE]

\* rect.topleft = (int(position.x), int(position.y))
SyncRect(b) == [b EXCEPT !.rect.x = b.x, !.rect.y = b.y \div 10]

\* the idle/running state machine (enemies.py lines 100-110): expires says
\* that state_timer has reached state_duration, coin is random() < 0.5
StateStep(b, expires, coin) ==
    IF ~expires THEN b
    ELSE IF b.state = "idle"
    THEN [b EXCEPT !.state = "running",
                   !.direction = IF coin THEN (IF @ = "right" THEN "left" ELSE "right")
                                 ELSE @]
    ELSE [b EXCEPT !.state = "idle"]

\* velocity.x of a patrolling enemy (lines 112-118)
PatrolVelocity(b, speed) ==
    IF b.state # "running" THEN 0
    ELSE IF b.direction = "right" THEN speed ELSE -speed

\* vertical integration and tile collision (enemies.py lines 121-142)
VerticalStep(b) ==
    LET y_vel == IF b.y_vel + ENEMY_GRAVITY > MAX_FALL THEN MAX_FALL
                 ELSE b.y_vel + ENEMY_GRAVITY
        dy == y_vel
        moved == SyncRect([b EXCEPT !.y = b.y + dy, !.y_vel = y_vel])
    IN  IF colliderect(moved.rect, Obstacle) /\ dy > 0
        THEN [moved EXCEPT !.rect.y = Obstacle.y - moved.rect.h,
                           !.y = (Obstacle.y - moved.rect.h) * 10,
                           !.y_vel = 0, !.jump_count = 0, !.on_ground = TRUE]
        ELSE IF colliderect(moved.rect, Obstacle) /\ dy < 0
        THEN [moved EXCEPT !.rect.y = RectBottom(Obstacle),
                           !.y = RectBottom(Obstacle) * 10, !.y_vel = 0]
        ELSE moved

\* horizontal move and tile collision (enemies.py lines 144-158)
HorizontalStep(b, velocity_x) ==
    LET moved == SyncRect([b EXCEPT !.x = b.x + velocity_x])
    IN  IF ~colliderect(moved.rect, Obstacle) THEN moved
        ELSE IF velocity_x > 0
        THEN [moved EXCEPT !.direction = "left",
                           !.rect.x = Obstacle.x - moved.rect.w,
                           !.x = Obstacle.x - moved.rect.w]
        ELSE IF velocity_x < 0
        THEN [moved EXCEPT !.direction = "right",
                           !.rect.x = RectRight(Obstacle),
                           !.x = RectRight(Obstacle)]
        ELSE [moved EXCEPT !.x = moved.rect.x]

\* the world clamp (enemies.py lines 160-166, fiercetooth.py lines 223-229):
\* it assigns position.x and leaves rect as it is
WorldClamp(b, velocity_x) ==
    IF b.rect.x + velocity_x <= 0
    THEN [b EXCEPT !.direction = "right", !.x = 0]
    ELSE IF RectRight(b.rect) + velocity_x > WORLD_WIDTH
    THEN [b EXCEPT !.direction = "left", !.x = WORLD_WIDTH - b.rect.w]
    ELSE b

\* Enemy.handle_movement and FierceTooth.handle_movement with no player and
\* no RED rectangle in reach
EnemyHandleMovement(b, expires, coin) ==
    LET turned == StateStep(b, expires, coin)
        velocity_x == PatrolVelocity(turned, x_vel(b.kind))
    IN  [WorldClamp(HorizontalStep(VerticalStep(turned), velocity_x), velocity_x)
            EXCEPT !.moved = TRUE]

\* PinkStar.handle_movement while patrolling (chasing_player False), with no
\* player and no RED rectangle in reach: the method ends at line 502
PinkStarHandleMovement(b, expires, coin) ==
    LET turned == StateStep(b, expires, coin)
        velocity_x == PatrolVelocity(turned, x_vel(b.kind))
    IN  [HorizontalStep(VerticalStep(turned), velocity_x) EXCEPT !.moved = TRUE]

\* Player.handle_movement with no enemy in reach: key is the arrow key held,
\* sprint says that shift is held with stamina left
PlayerHandleMovement(b, key, sprint) ==
    LET speed == IF sprint THEN SPRINT_SPEED ELSE x_vel(b.kind)
        velocity_x == IF key = "left" THEN -speed
                      ELSE IF key = "right" THEN speed ELSE 0
        faced == IF key = "none" THEN b ELSE [b EXCEPT !.direction = key]
        y_vel == IF b.y_vel + ENEMY_GRAVITY > MAX_FALL THEN MAX_FALL
                 ELSE b.y_vel + ENEMY_GRAVITY
        lands == RectBottom(b.rect) * 10 + y_vel > PLAYER_GROUND * 10
        dy == IF lands THEN (PLAYER_GROUND - RectBottom(b.rect)) * 10 ELSE y_vel
        fallen == SyncRect([faced EXCEPT !.y = b.y + dy,
                                         !.y_vel = IF lands THEN 0 ELSE y_vel])
    IN  [SyncRect([fallen EXCEPT !.x = fallen.x + velocity_x]) EXCEPT !.moved = TRUE]

(***************************************************************************)
(* The movement specification: one body, placed on any tile above the      *)
(* floor and so in the air, is moved once per tick.  A body that has left  *)
(* the world by more than MaxOutside pixels is followed no further.        *)
(***************************************************************************)
MaxOutside == 6

InView(b) ==
    /\ b.x >= -MaxOutside
    /\ b.x + b.rect.w <= WORLD_WIDTH + MaxOutside

PlaceBody(kinds) ==
    /\ InitZones /\ InitGame({BandsLayout}, {NoProgress})
    /\ search = NoSearch
    /\ view = NoView
    /\ tooth = NoTooth
    /\ \E kind \in kinds, col \in 0 .. GridCols - 1, row \in 0 .. FloorRow - 2 :
          body = NewBody(kind, col, row)

InitBody == PlaceBody(Kinds)

\* Enemy.update / PinkStar.update open the tick: rect.topleft is set from
\* position; the player has no such step
MoveEnemy ==
    /\ body.kind \in {"enemy", "ft"}
    /\ \E expires, coin \in BOOLEAN :
          body' = EnemyHandleMovement(SyncRect(body), expires, coin)

MovePinkStar ==
    /\ body.kind = "ps"
    /\ InView(body)
    /\ \E expires, coin \in BOOLEAN :
          body' = PinkStarHandleMovement(SyncRect(body), expires, coin)

MovePlayer ==
    /\ body.kind = "player"
    /\ InView(body)
    /\ \E key \in {"none", "left", "right"}, sprint \in BOOLEAN :
          body' = PlayerHandleMovement(body, key, sprint)

NextBody ==
    \/ MoveEnemy /\ UNCHANGED <<zoneVars, gameVars, search, view, tooth>>
    \/ MovePinkStar /\ UNCHANGED <<zoneVars, gameVars, search, view, tooth>>
    \/ MovePlayer /\ UNCHANGED <<zoneVars, gameVars, search, view, tooth>>

SpecBody == InitBody /\ [][NextBody]_vars

(***************************************************************************)
(* The ledge specification: a FierceTooth or a PinkStar over a floor one   *)
(* tile wide, with the jump that update starts at a purple rectangle       *)
(* (fiercetooth.py 584-608, pink_star.py 621-641) before handle_movement   *)
(* runs.  Whether the body overlaps a purple rectangle, with the die of    *)
(* line 592 or the edge test of lines 631-636 in favour, is an input.  A   *)
(* body that has fallen below the floor row, or left the world by more     *)
(* than MaxOutside pixels, is followed no further.                         *)
(***************************************************************************)
\* rect.bottom lies on the top of the obstacle, which is beneath the body
Supported(b) ==
    /\ RectBottom(b.rect) = Obstacle.y
    /\ b.rect.x < RectRight(Obstacle)
    /\ Obstacle.x < RectRight(b.rect)

\* y_vel of Enemy.jump in tenths of a pixel (enemies.py 174-178)
JUMP_VEL(kind) == IF kind = "ps" THEN -130 ELSE -140

\* Enemy.jump (enemies.py 168-181); air_jump notes a jump that starts with
\* nothing beneath the body
Jump(b) ==
    IF b.jump_count < 1
    THEN [b EXCEPT !.y_vel = JUMP_VEL(b.kind), !.jump_count = @ + 1,
                   !.on_ground = FALSE, !.air_jump = ~Supported(b)]
    ELSE b

\* the jump at a purple rectangle of FierceTooth.update and PinkStar.update
PurpleJump(b, purple) ==
    IF purple /\ b.on_ground /\ b.jump_count < 1 THEN Jump(b) ELSE b

AboveGround(b) == b.rect.y <= GridRows * TILE_SIZE

MoveOnLedge ==
    /\ body.kind \in {"ft", "ps"}
    /\ body.ledge
    /\ AboveGround(body)
    /\ InView(body)
    /\ \E expires, coin, purple \in BOOLEAN :
          body' = IF body.kind = "ft"
                  THEN EnemyHandleMovement(PurpleJump(SyncRect(body), purple),
                                           expires, coin)
                  ELSE PinkStarHandleMovement(PurpleJump(SyncRect(body), purple),
                                              expires, coin)

InitLedge ==
    /\ InitZones /\ InitGame({BandsLayout}, {NoProgress})
    /\ search = NoSearch
    /\ view = NoView
    /\ tooth = NoTooth
    /\ \E kind \in {"ft", "ps"} :
          body = [NewBody(kind, 0, 0) EXCEPT !.ledge = TRUE]

NextLedge == MoveOnLedge /\ UNCHANGED <<zoneVars, gameVars, search, view, tooth>>

SpecLedge == InitLedge /\ [][NextLedge]_vars

(***************************************************************************)
(* The sprint specification: the stamina of the player, tick by tick.      *)
(* main runs Player.update and then Player.handle_movement (main.py lines  *)
(* 713-716).  stamina is kept in tenths, the unit of SPRINT_DEPLETION 0.6  *)
(* and SPRINT_RECOVERY 0.3.  The keys held are the input of a tick.        *)
(* drained, was_sprinting and asked are history: stamina was cut to 0 and  *)
(* has not reached SPRINT_THRESHOLD since, is_sprinting at the end of the  *)
(* tick before, and shift held with a direction key in this tick.          *)
(***************************************************************************)
MAX_STAMINA == 1000
SPRINT_DEPLETION == 6
SPRINT_RECOVERY == 3
SPRINT_THRESHOLD == 100

\* Player.__init__ (player.py lines 87-91)
NewSprinter ==
    [kind |-> "sprinter", stamina |-> MAX_STAMINA, sprint_allowed |-> TRUE,
     is_sprinting |-> FALSE, speed |-> x_vel("player"),
     drained |-> FALSE, was_sprinting |-> FALSE, asked |-> FALSE]

\* the stamina part of update with sprint_allowed set whatever stamina is
UpdateStaminaNoThreshold(b) ==
    IF b.is_sprinting
    THEN IF b.stamina - SPRINT_DEPLETION <= 0
         THEN [b EXCEPT !.stamina = 0, !.is_sprinting = FALSE,
                        !.speed = x_vel("player"), !.sprint_allowed = FALSE,
                        !.drained = TRUE]
         ELSE [b EXCEPT !.stamina = @ - SPRINT_DEPLETION]
    ELSE LET stamina == IF b.stamina >= MAX_STAMINA THEN b.stamina
                        ELSE IF b.stamina + SPRINT_RECOVERY > MAX_STAMINA
                        THEN MAX_STAMINA ELSE b.stamina + SPRINT_RECOVERY
         IN  [b EXCEPT !.stamina = stamina,
                       !.sprint_allowed = TRUE,
                       !.drained = @ /\ stamina < SPRINT_THRESHOLD]

\* the stamina part of Player.update (player.py lines 500-517)
UpdateStamina(b) ==
    IF b.is_sprinting
    THEN IF b.stamina - SPRINT_DEPLETION <= 0
         THEN [b EXCEPT !.stamina = 0, !.is_sprinting = FALSE,
                        !.speed = x_vel("player"), !.sprint_allowed = FALSE,
                        !.drained = TRUE]
         ELSE [b EXCEPT !.stamina = @ - SPRINT_DEPLETION]
    ELSE LET stamina == IF b.stamina >= MAX_STAMINA THEN b.stamina
                        ELSE IF b.stamina + SPRINT_RECOVERY > MAX_STAMINA
                        THEN MAX_STAMINA ELSE b.stamina + SPRINT_RECOVERY
         IN  [b EXCEPT !.stamina = stamina,
                       !.sprint_allowed = (stamina >= SPRINT_THRESHOLD),
                       !.drained = @ /\ stamina < SPRINT_THRESHOLD]

\* the choice of speed of Player.handle_movement (player.py lines 108-142)
SprintStep(b, key, shift) ==
    IF key # "none" /\ shift /\ b.stamina > 0 /\ b.sprint_allowed
    THEN [b EXCEPT !.speed = SPRINT_SPEED, !.is_sprinting = TRUE]
    ELSE [b EXCEPT !.speed = x_vel("player"), !.is_sprinting = FALSE]

\* main.py lines 713-716 for the stamina of the player
SprintTick ==
    /\ body.kind = "sprinter"
    /\ \E key \in {"none", "left", "right"}, shift \in BOOLEAN :
          body' = SprintStep(UpdateStamina([body EXCEPT
                                 !.was_sprinting = body.is_sprinting,
                                 !.asked = (shift /\ key # "none")]),
                             key, shift)

InitSprint ==
    /\ InitZones /\ InitGame({BandsLayout}, {NoProgress})
    /\ search = NoSearch
    /\ view = NoView
    /\ tooth = NoTooth
    /\ body = NewSprinter

NextSprint == SprintTick /\ UNCHANGED <<zoneVars, gameVars, search, view, tooth>>

SpecSprint == InitSprint /\ [][NextSprint]_vars

(***************************************************************************)
(* The falling specification: an Enemy or a FierceTooth alone, for ever.   *)
(* main() runs one iteration of its loop after another, so a body that can *)
(* be moved is moved.                                                      *)
(***************************************************************************)
InitFall == PlaceBody({"enemy", "ft"})

NextFall == MoveEnemy /\ UNCHANGED <<zoneVars, gameVars, search, view, tooth>>

SpecFall == InitFall /\ [][NextFall]_vars /\ WF_body(MoveEnemy)

(***************************************************************************)
(* The vision cone: FierceTooth.check_vision_cone (fiercetooth.py lines    *)
(* 273-336) and SeashellPearl.check_vision_cone (seashell_pearl.py lines   *)
(* 74-149) on one pair of enemy and player.  The method is given what it   *)
(* computes from the two rects and the obstacles: distance is              *)
(* math.hypot(dx, dy) in pixels, angle is math.degrees(math.atan2(dy, dx)) *)
(* brought into 0 .. 360, below is player.rect.bottom > self.rect.bottom,  *)
(* blocked is what _blocked_by_obstacle returns.                           *)
(***************************************************************************)
vision_range(k) == IF k = "ft" THEN FT_VISION_RANGE ELSE SS_VISION_RANGE
vision_angle(k) == IF k = "ft" THEN FT_VISION_ANGLE ELSE SS_VISION_ANGLE
close_range(k) == IF k = "ft" THEN FT_ATTACK_RANGE ELSE bite_range

\* a cone that leaves its two edges out
InConeOpen(k, direction, angle) ==
    IF direction = "right"
    THEN angle > 360 - vision_angle(k) \div 2 \/ angle < vision_angle(k) \div 2
    ELSE /\ 180 - vision_angle(k) \div 2 < angle
         /\ angle < 180 + vision_angle(k) \div 2

\* in_vision (fiercetooth.py lines 307-314, seashell_pearl.py lines 106-113
\* and 128-135)
InCone(k, direction, angle) ==
    IF direction = "right"
    THEN angle >= 360 - vision_angle(k) \div 2 \/ angle <= vision_angle(k) \div 2
    ELSE /\ 180 - vision_angle(k) \div 2 <= angle
         /\ angle <= 180 + vision_angle(k) \div 2

check_vision_cone(v) ==
    IF ~v.alive THEN "none"
    ELSE IF v.k = "ss" /\ v.below THEN "none"
    ELSE IF v.distance > vision_range(v.k) THEN "none"
    ELSE IF ~InCone(v.k, v.direction, v.angle) THEN "none"
    ELSE IF v.k = "ft" /\ v.blocked THEN "none"
    ELSE IF v.distance <= close_range(v.k)
    THEN (IF v.k = "ft" THEN "attack" ELSE "bite")
    ELSE (IF v.k = "ft" THEN "shoot" ELSE "fire")

\* the distances and the angles tried: the ranges and the edges of the
\* cones, and their neighbours
ConeDistances ==
    {0, bite_range, bite_range + 1, FT_ATTACK_RANGE, FT_ATTACK_RANGE + 1,
     FT_VISION_RANGE - 1, FT_VISION_RANGE, FT_VISION_RANGE + 1,
     SS_VISION_RANGE - 1, SS_VISION_RANGE, SS_VISION_RANGE + 1}

ConeEdges(k, direction) ==
    IF direction = "right"
    THEN {vision_angle(k) \div 2, 360 - vision_angle(k) \div 2}
    ELSE {180 - vision_angle(k) \div 2, 180 + vision_angle(k) \div 2}

ConeAngles ==
    {0, 90, 180, 270} \cup
    UNION { {a - 1, a, a + 1} :
              a \in UNION { ConeEdges(k, d) : k \in {"ft", "ss"},
                                               d \in {"left", "right"} } }

InitCone ==
    /\ InitZones /\ InitGame({BandsLayout}, {NoProgress})
    /\ search = NoSearch
    /\ body = NoBody
    /\ tooth = NoTooth
    /\ \E k \in {"ft", "ss"}, direction \in {"left", "right"},
          alive, below, blocked \in BOOLEAN,
          distance \in ConeDistances, angle \in ConeAngles :
          view = [k |-> k, direction |-> direction, alive |-> alive,
                  below |-> below, blocked |-> blocked, distance |-> distance,
                  angle |-> angle, result |-> "pending"]

CheckVisionCone ==
    /\ view.k # "none"
    /\ view.result = "pending"
    /\ view' = [view EXCEPT !.result = check_vision_cone(view)]
    /\ UNCHANGED <<zoneVars, gameVars, search, body, tooth>>

NextCone == CheckVisionCone

SpecCone == InitCone /\ [][NextCone]_vars

(***************************************************************************)
(* One smartmode FierceTooth and the player around it, tick by tick:       *)
(* main.py lines 668-679 run update, then handle_movement, then the dodge  *)
(* checks.  A scene is what one pass reads of the player and of the        *)
(* level: whether the player is inside the vision cone of an enemy facing  *)
(* it (seen), the side of the enemy it stands on (side), how far it is     *)
(* (far / within attack_range / within attack_range // 2 and touching),    *)
(* whether its rect.y is above, level with or below the enemy's, whether   *)
(* the enemy stands on the ground, whether purple rects are in reach and   *)
(* whether the enemy has run past the far one.  tooth.at_move is what      *)
(* handle_movement found and chose; tooth.turns lists the reversals of the *)
(* pass with the turn_cooldown each of them found.                         *)
(***************************************************************************)
MaxToothTicks == 3
RECENTLY_LOST_VISION == 30
CONTINUE_CHASE_DURATION == 300
GRENADE_FLEE_DURATION == 100
CHASE_SPEED == 3
STRIKE_COOLDOWN == 60

Sides == {"left", "right"}

Other(d) == IF d = "right" THEN "left" ELSE "right"

Scenes ==
    [seen : BOOLEAN, side : Sides, dist : {"far", "attack", "strike"},
     player_y : {"above", "level", "below"}, on_ground : BOOLEAN,
     purple : BOOLEAN, past : BOOLEAN]

\* FierceTooth.__init__ (fiercetooth.py 44-96) over Enemy.__init__
NewTooth(direction) ==
    [k |-> "ft", direction |-> direction, speed |-> x_vel("ft"),
     state |-> "idle", hit_anim_timer |-> 0,
     post_attack_recovery |-> FALSE, attack_recovery_timer |-> 0,
     attack_cooldown |-> 0, attacking |-> FALSE,
     previous_vision |-> FALSE, player_in_vision |-> FALSE,
     recently_lost_vision_timer |-> 0, recheck_turn_timer |-> 0,
     turn_cooldown |-> 0, continue_chase_timer |-> 0,
     last_chase_direction |-> "none", pursuing_purple_rect |-> FALSE,
     grenade_flee_timer |-> 0, dodge_cooldown |-> 0,
     age |-> 0,
     at_move |-> [hit_anim_timer |-> 0, post_attack_recovery |-> FALSE,
                  speed |-> 0, velocity_x |-> 0],
     turns |-> << >>, since_turn |-> TURN_COOLDOWN]

\* player_is_behind as update computes it (fiercetooth.py 625-626)
player_is_behind(t, s) == s.side # t.direction

\* a reversal of direction, noted with the turn_cooldown it found and the
\* ticks since the last noted reversal
Reverse(t, kind) ==
    [t EXCEPT !.direction = Other(@),
              !.turns = Append(@, [kind |-> kind,
                                   turn_cooldown |-> t.turn_cooldown,
                                   gap |-> t.since_turn]),
              !.since_turn = 0]

\* the start of a pass: the notes of the pass before are dropped
BeginPass(t) ==
    [t EXCEPT !.turns = << >>,
              !.since_turn = IF @ < TURN_COOLDOWN THEN @ + 1 ELSE @]

\* update, lines 559-575: the vision check
ToothVision(t, s) ==
    LET vision == IF s.seen /\ s.side = t.direction
                  THEN (IF s.dist = "far" THEN "shoot" ELSE "attack")
                  ELSE "none"
    IN  [t EXCEPT !.previous_vision = t.player_in_vision,
                  !.player_in_vision = (vision # "none"),
                  !.attacking = (vision = "attack")]

\* update, lines 610-644: vision just lost, and the ticks after it
LostVision(t, s) ==
    IF t.previous_vision /\ ~t.player_in_vision
        THEN LET t1 == [t EXCEPT !.recently_lost_vision_timer = RECENTLY_LOST_VISION]
             IN  IF s.on_ground /\ s.player_y = "below"
                 THEN [t1 EXCEPT !.last_chase_direction = t.direction,
                                 !.continue_chase_timer = CONTINUE_CHASE_DURATION]
                 ELSE IF t.turn_cooldown = 0
                 THEN [t1 EXCEPT !.recheck_turn_timer = RECHECK_TURN_DURATION]
                 ELSE t1
        ELSE IF t.recently_lost_vision_timer > 0
        THEN LET t1 == [t EXCEPT !.recently_lost_vision_timer = @ - 1]
             IN  IF s.on_ground /\ s.purple /\ s.player_y = "above"
                 THEN [t1 EXCEPT !.last_chase_direction = t.direction,
                                 !.pursuing_purple_rect = TRUE,
                                 !.continue_chase_timer = CONTINUE_CHASE_DURATION]
                 ELSE t1
        ELSE t

\* the chase step of a running enemy (lines 650-655, 669-674, 683-688)
ChaseOn(t) ==
    [t EXCEPT !.direction = t.last_chase_direction, !.speed = CHASE_SPEED,
              !.state = "running"]

\* update, lines 646-699: the chase that outlasts the vision
ContinueChase(t, s) ==
    IF t.continue_chase_timer = 0 THEN t
    ELSE LET t1 == [t EXCEPT !.continue_chase_timer = @ - 1]
             led == t1.last_chase_direction # "none"
         IN  IF s.on_ground /\ s.player_y = "below" /\ led
             THEN ChaseOn(t1)
             ELSE IF t1.pursuing_purple_rect /\ led
             THEN IF s.past
                  THEN [(IF t1.direction = t1.last_chase_direction
                         THEN Reverse(t1, "purple") ELSE t1)
                        EXCEPT !.continue_chase_timer = 0,
                               !.pursuing_purple_rect = FALSE,
                               !.last_chase_direction = "none",
                               !.turn_cooldown = TURN_COOLDOWN]
                  ELSE ChaseOn(t1)
             ELSE IF s.player_y = "level" /\ led /\ ~t1.pursuing_purple_rect
             THEN [(IF t1.direction = t1.last_chase_direction
                    THEN Reverse(t1, "level") ELSE t1)
                   EXCEPT !.last_chase_direction = "none",
                          !.continue_chase_timer = 0,
                          !.turn_cooldown = TURN_COOLDOWN]
             ELSE IF t1.continue_chase_timer = 0
             THEN [t1 EXCEPT !.last_chase_direction = "none",
                             !.pursuing_purple_rect = FALSE]
             ELSE t1

\* update, lines 701-714: turn_cooldown runs down, and the recheck turn
RecheckTurn(t) ==
    LET t1 == [t EXCEPT !.turn_cooldown = Dec(@)]
    IN  IF t1.recheck_turn_timer > 0 /\ t1.hit_anim_timer = 0
        THEN LET t2 == [t1 EXCEPT !.recheck_turn_timer = @ - 1]
             IN  IF /\ t2.recheck_turn_timer = 0
                    /\ ~t2.player_in_vision
                    /\ t2.turn_cooldown = 0
                    /\ t2.continue_chase_timer = 0
                 THEN [Reverse(t2, "recheck") EXCEPT !.turn_cooldown = TURN_COOLDOWN]
                 ELSE t2
        ELSE t1

\* update, lines 716-731: attack_cooldown and the grenade flight
FleeTick(t) ==
    LET t1 == [t EXCEPT !.attack_cooldown = Dec(@)]
    IN  IF t1.grenade_flee_timer > 0
        THEN [t1 EXCEPT !.grenade_flee_timer = @ - 1, !.state = "running",
                        !.speed = IF @ < CHASE_SPEED THEN CHASE_SPEED ELSE @]
        ELSE t1

\* the turn of lines 745-752 and 759-766: towards a player that went behind
\* while the enemy stands in recovery or in hit-stun
FrozenTurn(t, s) ==
    IF t.recently_lost_vision_timer > 0 /\ player_is_behind(t, s)
    THEN [Reverse(t, "behind") EXCEPT !.recently_lost_vision_timer = 0,
                                      !.recheck_turn_timer = RECHECK_TURN_DURATION,
                                      !.turn_cooldown = TURN_COOLDOWN]
    ELSE t

\* update, lines 733-781: the choice of speed, made only while
\* continue_chase_timer is 0
SpeedSelection(t, s) ==
    IF t.continue_chase_timer # 0 THEN t
    ELSE IF t.player_in_vision /\ ~t.post_attack_recovery /\ t.hit_anim_timer = 0
    THEN IF t.grenade_flee_timer = 0
         THEN [t EXCEPT !.speed = CHASE_SPEED, !.state = "running"]
         ELSE t
    ELSE IF t.post_attack_recovery
    THEN FrozenTurn([t EXCEPT !.speed = 0, !.state = "idle"], s)
    ELSE IF t.hit_anim_timer > 0
    THEN FrozenTurn([t EXCEPT !.attack_cooldown = STRIKE_COOLDOWN,
                              !.speed = 0, !.state = "idle"], s)
    ELSE IF t.recently_lost_vision_timer > 0
    THEN IF player_is_behind(t, s) /\ t.turn_cooldown = 0
         THEN [Reverse(t, "behind") EXCEPT !.speed = CHASE_SPEED,
                                           !.state = "running",
                                           !.recently_lost_vision_timer = 0,
                                           !.recheck_turn_timer = RECHECK_TURN_DURATION,
                                           !.turn_cooldown = TURN_COOLDOWN]
         ELSE t
    ELSE IF t.grenade_flee_timer = 0
    THEN [t EXCEPT !.speed = x_vel("ft")]
    ELSE t

\* update, lines 783-794: the strike
ToothStrike(t, s) ==
    IF /\ t.attacking /\ t.attack_cooldown = 0 /\ t.hit_anim_timer = 0
       /\ s.on_ground /\ s.dist = "strike"
       /\ s.player_y = "level"
    THEN StartRecovery(t, STRIKE_COOLDOWN)
    ELSE t

\* update, lines 796-807: the turn towards a player that touches the enemy
\* from behind
TouchTurn(t, s) ==
    IF /\ s.dist = "strike" /\ t.grenade_flee_timer = 0
       /\ player_is_behind(t, s) /\ ~t.post_attack_recovery
       /\ t.hit_anim_timer = 0 /\ t.turn_cooldown = 0
    THEN [Reverse(t, "collision") EXCEPT !.attacking = TRUE,
                                         !.attack_cooldown = 0,
                                         !.recheck_turn_timer = RECHECK_TURN_DURATION,
                                         !.turn_cooldown = TURN_COOLDOWN]
    ELSE t

\* update, lines 809-816: the recovery and the hit-stun run down
ToothTimers(t) ==
    LET t1 == RecoveryTick("ft", t)
    IN  [t1 EXCEPT !.hit_anim_timer = Dec(@)]

\* FierceTooth.update (fiercetooth.py 545-816), stage after stage
ToothUpdate(t, s) ==
    ToothTimers(TouchTurn(ToothStrike(SpeedSelection(FleeTick(
        RecheckTurn(ContinueChase(LostVision(ToothVision(t, s), s), s))), s), s), s))

\* FierceTooth.handle_movement (fiercetooth.py 119-227): the state timer
\* (expires, and the coin of the random turn), the horizontal velocity of a
\* running enemy, and the landing on the player's head (lands)
ToothMove(t, expires, coin, lands) ==
    LET t1 == IF ~expires THEN t
              ELSE IF t.state = "idle"
              THEN [(IF coin THEN Reverse(t, "random") ELSE t)
                    EXCEPT !.state = "running"]
              ELSE [t EXCEPT !.state = "idle"]
        vx == IF t1.state = "running"
              THEN (IF t1.direction = "right" THEN t1.speed ELSE 0 - t1.speed)
              ELSE 0
        t2 == [t1 EXCEPT !.at_move =
                  [hit_anim_timer |-> t.hit_anim_timer,
                   post_attack_recovery |-> t.post_attack_recovery,
                   speed |-> t.speed, velocity_x |-> vx]]
    IN  IF lands THEN StartRecovery(t2, STRIKE_COOLDOWN) ELSE t2

\* FierceTooth.check_and_dodge_grenades (fiercetooth.py 391-436): a grenade
\* inside the vision cone sends the enemy the other way
ToothDodge(t, grenade) ==
    IF t.dodge_cooldown > 0
    THEN [t EXCEPT !.dodge_cooldown = @ - 1]
    ELSE IF grenade
    THEN [Reverse(t, "flee") EXCEPT !.grenade_flee_timer = GRENADE_FLEE_DURATION,
                                    !.state = "running",
                                    !.speed = IF @ < CHASE_SPEED THEN CHASE_SPEED ELSE @,
                                    !.dodge_cooldown = DODGE_COOLDOWN]
    ELSE t

\* main.py lines 668-679 for one FierceTooth in the scene s
ToothPass ==
    /\ tooth.k = "ft"
    /\ tooth.age < MaxToothTicks
    /\ \E s \in Scenes, expires \in BOOLEAN, coin \in BOOLEAN, lands \in BOOLEAN, grenade \in BOOLEAN :
          \* purple is read only of a grounded enemy below the player, and
          \* past only of an enemy that pursues a purple rect
          /\ s.purple => s.on_ground /\ s.player_y = "above"
          /\ s.past => tooth.pursuing_purple_rect
          /\ coin => expires /\ tooth.state = "idle"
          /\ lands => s.dist = "strike" /\ s.player_y = "below"
          /\ tooth' = [ToothDodge(ToothMove(ToothUpdate(BeginPass(tooth), s),
                                            expires, coin, lands), grenade)
                       EXCEPT !.age = @ + 1]
    /\ UNCHANGED <<zoneVars, gameVars, search, body, view>>

\* the player lands on the enemy's head: FierceTooth.get_hit
\* (fiercetooth.py 501-528) with the player as attacker, behind the enemy
\* or in front of it
PlayerStomps ==
    /\ tooth.k = "ft"
    /\ tooth.age < MaxToothTicks
    /\ tooth.hit_anim_timer = 0
    /\ \E behind \in BOOLEAN :
          tooth' = [(IF behind THEN Reverse(tooth, "hit") ELSE tooth)
                    EXCEPT !.hit_anim_timer = HIT_ANIM_DURATION("ft")]
    /\ UNCHANGED <<zoneVars, gameVars, search, body, view>>

InitTooth ==
    /\ InitZones /\ InitGame({BandsLayout}, {NoProgress})
    /\ search = NoSearch
    /\ body = NoBody
    /\ view = NoView
    /\ \E d \in Sides : tooth = NewTooth(d)

NextTooth == ToothPass \/ PlayerStomps

SpecTooth == InitTooth /\ [][NextTooth]_vars

(***************************************************************************)
(*                              PROPERTIES                                 *)
(***************************************************************************)

C2_FatalHitClampsAndKills ==
    \A i \in DOMAIN calls :
        calls[i].hit_anim_timer = 0 =>
            IF calls[i].health - calls[i].damage > 0
            THEN /\ calls[i].health_after = calls[i].health - calls[i].damage
                 /\ calls[i].alive_after
            ELSE /\ calls[i].health_after = 0
                 /\ ~calls[i].alive_after

\* the end of a simulation tick: save_level_progress has just run
EndOfTick == pc = "events" /\ ActiveScreen(screens) \in
                 {"playing_level", "death_screen", "next_level_screen"}

\* C3: at the end of every simulation tick the player and every enemy have
\* 0 <= health <= max_health.
C3_HealthInRange ==
    EndOfTick =>
        /\ 0 <= player.health /\ player.health <= player.max_health
        /\ \A k \in Species :
              0 <= enemies[k].health /\ enemies[k].health <= enemies[k].max_health

\* a step of the playing branch (a pass or the event loop of a playing frame)
PlayingStep == pc # "top" \/ ActiveScreen(screens) = "playing_level"

C5_HealthNeverRises ==
    (pc = "save" /\ level_info.tick_end # << >>) =>
        LET last == level_info.tick_end[1]
        IN  /\ player.health > last.health["player"] =>
                   (health_gems # last.gems /\ player.health <= player.max_health)
            /\ \A k \in Species : enemies[k].health <= last.health[k]

\* C6: during one detonation each enemy and the player receive the blast's
\* get_hit call at most once, however many updates run in the blast state.
C6_BlastHitsOnce ==
    \A i \in DOMAIN player_grenade_group :
        \A t \in Targets : player_grenade_group[i].hits[t] <= 1

\* a blast that has hit an enemy and has been held for several updates
C6_Witness ==
    \E i \in DOMAIN player_grenade_group :
        /\ player_grenade_group[i].state = "blast"
        /\ player_grenade_group[i].updates >= 105
        /\ \E k \in Species : player_grenade_group[i].hits[k] = 1

\* The distance bands of a blast whose explosion frame is 160 px square,
\* from the squared distance: the radius is hypot(80, 80) + 10 = 123.137..,
\* so the bands end at squared distances 3790 (50%), 8529 (75%), 15162.
BandLoss(dx, dy) ==
    LET d2 == dx * dx + dy * dy
    IN  IF d2 <= 3790 THEN 120
        ELSE IF d2 <= 8529 THEN 90
        ELSE IF d2 <= 15162 THEN 60
        ELSE 0

\* the grenade whose blast the next GrenadePass step applies
Detonating(i) ==
    /\ pc = "grenades"
    /\ idx = i
    /\ player_grenade_group[i].state = "blast"
    /\ ~player_grenade_group[i].blast_applied

BlastCentre(g) == <<g.x + 80, g.y + 80>>

\* C7 (as amended): on detonation every living enemy within the maximum
\* blast radius that is not in hit-stun loses health according to its
\* distance band; an enemy in hit-stun, or farther than the radius, or dead,
\* loses none.
C7_BlastBandsUnlessStunned ==
    [][ \A i \in DOMAIN player_grenade_group :
            Detonating(i) =>
                \A k \in Species :
                    LET c == BlastCentre(player_grenade_group[i])
                        e == enemies[k]
                    IN  enemies'[k].health =
                            IF e.alive /\ e.hit_anim_timer = 0
                            THEN e.health - BandLoss(e.cx - c[1], e.cy - c[2])
                            ELSE e.health ]_vars

\* a blast has called get_hit on a living enemy whose hit-stun, started by
\* an earlier blast, was still running
C7_Witness ==
    \E i \in DOMAIN player_grenade_group :
        /\ player_grenade_group[i].state = "blast"
        /\ player_grenade_group[i].blast_applied
        /\ \E k \in Species :
              /\ player_grenade_group[i].hits[k] = 1
              /\ enemies[k].alive
              /\ enemies[k].hit_anim_timer > 0
              /\ enemies[k].hit_anim_timer < 95
              /\ enemies[k].health < enemies[k].max_health

\* C7 as stated: on detonation every living enemy within the maximum blast
\* radius loses health according to its distance band, and one farther away
\* loses none.
C7_BlastBands ==
    [][ \A i \in DOMAIN player_grenade_group :
            Detonating(i) =>
                \A k \in Species :
                    LET c == BlastCentre(player_grenade_group[i])
                        e == enemies[k]
                    IN  e.alive =>
                            enemies'[k].health =
                                e.health - BandLoss(e.cx - c[1], e.cy - c[2]) ]_vars

\* C8: a grenade is in the blast state exactly from its 100th update on.
C8_FuseIsHundredUpdates ==
    \A i \in DOMAIN player_grenade_group :
        (player_grenade_group[i].state = "blast")
            <=> (player_grenade_group[i].updates >= 100)

\* a grenade that has come to rest on the ground has just detonated
C8_Witness ==
    \E i \in DOMAIN player_grenade_group :
        /\ player_grenade_group[i].state = "blast"
        /\ player_grenade_group[i].updates = 100
        /\ player_grenade_group[i].y + player_grenade_group[i].h = GROUND_Y

\* the toplefts of the ORANGE markers World.process_data has placed
OrangeTopLefts ==
    { <<r.rect.x, r.rect.y>> : r \in {q \in constraint_rect_group : q.colour = "ORANGE"} }

\* the corner toplefts of the rectangles that fit the grid
CornerSets ==
    { { <<l * TILE_SIZE, t * TILE_SIZE>>, <<r * TILE_SIZE, t * TILE_SIZE>>,
        <<l * TILE_SIZE, b * TILE_SIZE>>, <<r * TILE_SIZE, b * TILE_SIZE>> } :
        <<l, r, t, b>> \in { q \in (0 .. GridCols - 1) \X (0 .. GridCols - 1)
                                   \X (0 .. GridRows - 1) \X (0 .. GridRows - 1) :
                                 q[1] < q[2] /\ q[3] < q[4] } }

\* C9: compute_danger_zones returns no zone when there is no ORANGE marker,
\* exactly one zone with validated = TRUE when the ORANGE markers are the
\* four corners of a rectangle, and exactly one zone with validated = FALSE
\* when they are three of the four corners.
C9_ZonesOfCorners ==
    world_loaded =>
        /\ OrangeTopLefts = {} => danger_zones = << >>
        /\ \A corners \in CornerSets :
              /\ OrangeTopLefts = corners =>
                    (Len(danger_zones) = 1 /\ danger_zones[1][2] = TRUE)
              /\ (OrangeTopLefts \subseteq corners /\ Cardinality(OrangeTopLefts) = 3) =>
                    (Len(danger_zones) = 1 /\ danger_zones[1][2] = FALSE)

\* a level whose ORANGE markers are the four corners of a rectangle has
\* been loaded, with a tile of another colour beside them
C9_Witness ==
    /\ world_loaded
    /\ OrangeTopLefts \in CornerSets
    /\ \E q \in constraint_rect_group : q.colour # "ORANGE"
    /\ Len(danger_zones) = 1
    /\ danger_zones[1][2] = TRUE
    /\ danger_zones[1][1].w > 2 * TILE_SIZE

\* C10: a danger zone is validated only if there are exactly four ORANGE
\* markers, one at each corner of the zone's rectangle; with any other
\* number of markers the zone is flagged unvalidated.
C10_ValidatedOnlyWithFourCorners ==
    world_loaded =>
        \A i \in DOMAIN danger_zones :
            danger_zones[i][2] = TRUE =>
                /\ Cardinality(OrangeTopLefts) = 4
                /\ OrangeTopLefts \in CornerSets

(***************************************************************************)
(* Pathfinding (SpecAstar).                                                *)
(***************************************************************************)
\* the positions the waypoint graph lets one reach from a set of positions
RECURSIVE ReachableFrom(_, _)
ReachableFrom(connections, seen) ==
    LET next == seen \cup UNION {connections[p] : p \in seen}
    IN  IF next = seen THEN seen ELSE ReachableFrom(connections, next)

GoalReachable ==
    search.goal_pos \in
        ReachableFrom(get_purple_rect_connections(search.purple_rects),
                      {search.start_pos})

\* C12: a returned astar_pathfinding call yields [start] when the start is
\* the goal, and None when the goal cannot be reached from the start in the
\* graph of get_purple_rect_connections.
C12_AstarTrivialAndUnreachable ==
    search.phase = "returned" =>
        /\ search.start_pos = search.goal_pos =>
              search.result = <<search.start_pos>>
        /\ ~GoalReachable => search.result = "None"

\* a search that expanded several nodes before giving up on a goal that
\* the graph does not reach
C12_Witness ==
    /\ search.phase = "returned"
    /\ ~GoalReachable
    /\ Cardinality(search.closed_set) >= 3
    /\ search.result = "None"

(***************************************************************************)
(* Movement (SpecFall, SpecBody).                                          *)
(***************************************************************************)
AtRest ==
    /\ RectBottom(body.rect) = Obstacle.y
    /\ body.y_vel = 0
    /\ body.on_ground

\* C14: a body with no horizontal velocity that starts in the air above the
\* floor comes to rest: from some tick on, every handle_movement call ends
\* with rect.bottom == obstacle.top, y_vel == 0 and on_ground set.
C14_ComesToRest == <>[](body.kind = "enemy" => AtRest)

\* C15: after every tick the Player, the FierceTooth and the PinkStar lie
\* inside the world: position.x >= 0 and position.x + rect.width <= WORLD_WIDTH.
C15_InsideWorld ==
    (body.kind \in {"player", "ft", "ps"} /\ body.moved) =>
        /\ body.x >= 0
        /\ body.x + body.rect.w <= WORLD_WIDTH

\* C16: when handle_movement has ended and the other entities of the tick
\* test against the body's rect, rect.topleft is (int(position.x),
\* int(position.y)).
C16_RectFollowsPosition ==
    body.moved =>
        /\ body.rect.x = body.x
        /\ body.rect.y = body.y \div 10

(***************************************************************************)
(* Melee (Spec).                                                           *)
(***************************************************************************)
\* the get_hit calls of the last step that an enemy of the given species
\* made by touching the player
ContactCalls(species) ==
    { i \in 1 .. Len(calls) :
        "by" \in DOMAIN calls[i] /\ calls[i].by \in species }

\* C17: whenever a FierceTooth damages the player by contact, it has
\* attacking set, attack_cooldown == 0 and hit_anim_timer == 0 at that
\* moment (the vertical velocity, which the model does not hold, is left
\* out: the statement checked is weaker than the claim).
C17_ContactNeedsAttackState ==
    \A i \in ContactCalls({"ft"}) :
        /\ calls[i].attacking
        /\ calls[i].attack_cooldown = 0
        /\ calls[i].attacker_hit_anim_timer = 0

\* C28: every get_hit call an enemy makes on the player by contact is made
\* by an enemy that is alive, and every CannonBall and Pearl is spawned by an
\* enemy that is alive: an enemy whose update has found its health at 0 or
\* below neither damages the player nor shoots, in that update or later.
C28_DeadEnemiesAreHarmless ==
    /\ \A i \in ContactCalls(Species) : calls[i].attacker_alive
    /\ \A i \in 1 .. Len(cannon_ball_group) : cannon_ball_group[i].by_alive
    /\ \A i \in 1 .. Len(pearl_group) : pearl_group[i].by_alive

\* the four projectile groups of the level are empty
NoProjectiles ==
    /\ player_ammo_group = << >> /\ player_grenade_group = << >>
    /\ cannon_ball_group = << >> /\ pearl_group = << >>

\* C30: while the level goes on being played, every projectile spawned is
\* removed from its group in the end: once no more are spawned, the four
\* groups become empty and stay empty.
C30_ProjectilesEventuallyRemoved ==
    <>[](screens.playing_level => NoProjectiles)

\* the level is being played after the player has shot a gem and thrown a
\* grenade and after a shot has exploded on him, and no projectile is left
C30_Witness ==
    /\ screens.playing_level /\ player.alive /\ NoProjectiles
    /\ player.ammo < START_AMMO /\ player.grenades < START_GRENADES
    /\ player.health < PLAYER_HEALTH

\* C27: when an update of a FierceTooth or of a PinkStar ends, its flags
\* attacking and post_attack_recovery are not both set.
C27_AttackingXorRecovery ==
    \A k \in {"ft", "ps"} :
        ~(enemies[k].after_update.attacking
            /\ enemies[k].after_update.post_attack_recovery)

\* C26: the dodge_cooldown of a FierceTooth goes down by at most 1 in a
\* tick, and a FierceTooth that has dodged does not dodge again in the next
\* DODGE_COOLDOWN ticks.
C26_DodgeCooldownHolds ==
    [][/\ enemies'["ft"].dodge_cooldown >= enemies["ft"].dodge_cooldown - 1
       /\ (enemies'["ft"].since_dodge = 0 /\ enemies["ft"].since_dodge # 0
              => enemies["ft"].since_dodge >= DODGE_COOLDOWN)]_vars

\* the player of a check_vision_cone call that has returned is alive and
\* nothing hides him
Unoccluded ==
    /\ view.k # "none" /\ view.result # "pending"
    /\ view.alive /\ ~view.below /\ ~view.blocked

\* C25: an unoccluded player inside the cone at a distance of exactly
\* vision_range is seen, one a unit farther is not, and an unoccluded player
\* within vision_range on an edge of the cone (half of vision_angle to
\* either side of the facing direction) is seen.
C25_ConeBoundsInclusive ==
    Unoccluded =>
        /\ view.distance = vision_range(view.k)
               /\ InConeOpen(view.k, view.direction, view.angle)
               => view.result # "none"
        /\ view.distance = vision_range(view.k) + 1 => view.result = "none"
        /\ view.distance <= vision_range(view.k)
               /\ view.angle \in ConeEdges(view.k, view.direction)
               => view.result # "none"

\* a player on an edge of the cone at exactly vision_range has been seen
C25_Witness ==
    /\ Unoccluded
    /\ view.distance = vision_range(view.k)
    /\ view.angle \in ConeEdges(view.k, view.direction)
    /\ view.result \in {"shoot", "fire"}

\* the get_hit calls of the last step that a projectile made on the player
ShotCalls ==
    { i \in 1 .. Len(calls) :
        calls[i].target = "player" /\ "by" \notin DOMAIN calls[i] }

\* C24: enemies hit the player only in the enemy passes, which come before
\* the player's update, and projectiles only in the projectile passes, which
\* come after it; when the projectile passes begin, a player whose health is
\* 0 or below is no longer alive, and a projectile damages only a player who
\* is alive: so a player killed by a melee hit in a tick takes no projectile
\* damage in that tick.
C24_NoShotAfterMeleeKill ==
    /\ ContactCalls(Species) # {} => pc \in {"ss", "ps", "player"}
    /\ ShotCalls # {} => pc \in {"grenades", "cannon_balls", "pearls"}
    /\ pc = "ammo" /\ player.health <= 0 => ~player.alive
    /\ ShotCalls # {} => player.alive

\* a CannonBall or a Pearl has met the player in the tick in which the
\* player's update found him dead, and has made no get_hit call
C24_Witness ==
    /\ pc \in {"cannon_balls", "pearls"}
    /\ ~player.alive /\ player.death_timer = 0
    /\ calls = << >>
    /\ \E i \in 1 .. Len(cannon_ball_group) : cannon_ball_group[i].hit_at = tick

\* the get_hit calls of the last step made on an enemy
EnemyCalls == { i \in 1 .. Len(calls) : "attacker" \in DOMAIN calls[i] }

\* C23: a get_hit call on an enemy of any species raises hit_anim_timer from
\* 0 only if its attacker carries is_player or is_grenade; a call with any
\* other attacker (a PurpleGem) leaves the timer at 0.
C23_StunOnlyByPlayerOrGrenade ==
    \A i \in EnemyCalls :
        calls[i].hit_anim_timer = 0 /\ calls[i].stun_after > 0
            => calls[i].attacker.is_player \/ calls[i].attacker.is_grenade

\* a PurpleGem has damaged an enemy that was not in hit-stun
C23_Witness ==
    \E i \in EnemyCalls :
        /\ ~calls[i].attacker.is_player /\ ~calls[i].attacker.is_grenade
        /\ calls[i].hit_anim_timer = 0
        /\ calls[i].health_after < calls[i].health

\* the get_hit calls of the last step that a PurpleGem made on an enemy
GemCalls ==
    { i \in EnemyCalls :
        /\ ~calls[i].attacker.is_player /\ ~calls[i].attacker.is_grenade
        /\ ~calls[i].attacker.is_enemy }

\* C29: one update of a PurpleGem makes at most one get_hit call, one update
\* of a CannonBall or of a Pearl makes at most one, and a CannonBall or
\* Pearl that has made its call is exploding, in which state it makes no
\* further call: a projectile damages at most once, and at most one target.
C29_ProjectileHitsOnce ==
    /\ Cardinality(GemCalls) <= 1
    /\ Cardinality(ShotCalls) <= 1
    /\ \A i \in 1 .. Len(cannon_ball_group) :
          cannon_ball_group[i].hit_at # -1 =>
              cannon_ball_group[i].state = "exploding"
    /\ \A i \in 1 .. Len(pearl_group) :
          pearl_group[i].hit_at # -1 => pearl_group[i].state = "exploding"

\* the shots of a group were all fired with the cooldown at 0 and any two of
\* them at least `gap` ticks apart
ShotsApart(group, gap) ==
    /\ \A i \in 1 .. Len(group) : group[i].cooldown = 0
    /\ \A i, j \in 1 .. Len(group) :
          i < j => group[j].born - group[i].born >= gap

\* C22: every CannonBall and every Pearl is spawned with its shooter's ranged
\* cooldown at 0, CannonBalls of the FierceTooth at least 60 ticks apart and
\* Pearls of the SeashellPearl at least 32 ticks apart.
C22_ShotsRespectCooldown ==
    /\ ShotsApart(cannon_ball_group, 60)
    /\ ShotsApart(pearl_group, FIRE_COOLDOWN)

C20_BiteLocksIn ==
    [][(/\ pc = "ss"
        /\ enemies["ss"].in_group /\ enemies["ss"].alive
        /\ enemies["ss"].biting
        /\ enemies["ss"].bite_animation_timer < bite_animation_duration)
       => enemies'["ss"].biting]_vars

(***************************************************************************)
(* The PinkStar's chase (SpecLair).                                        *)
(***************************************************************************)
\* the player's rect lies strictly inside a validated danger zone
InsideValidatedZone ==
    \E i \in 1 .. Len(danger_zones) :
        /\ danger_zones[i][2]
        /\ PlayerRect(player).x > danger_zones[i][1].x
        /\ PlayerRect(player).y > danger_zones[i][1].y
        /\ RectRight(PlayerRect(player)) < RectRight(danger_zones[i][1])
        /\ RectBottom(PlayerRect(player)) < RectBottom(danger_zones[i][1])

\* the PinkStar pass of this tick has just run
AfterStarPass ==
    /\ pc = "player"
    /\ enemies["ps"].in_group /\ enemies["ps"].alive

\* C11: when PinkStar.update leaves chasing_player true, the player is alive
\* and his rect, as the previous player pass left it, lies inside a
\* validated danger zone.
C11_ChaseOnlyInsideZone ==
    (AfterStarPass /\ enemies["ps"].after_update.chasing_player) =>
        player.alive /\ InsideValidatedZone

\* C13: a PinkStar that is chasing when update hands over to
\* handle_movement has a non-empty path and an index inside it; when the
\* path search gave nothing, the path is the player's position alone.
C13_ChaseHasTarget ==
    (AfterStarPass /\ enemies["ps"].after_update.chasing_player) =>
        LET u == enemies["ps"].after_update
        IN  /\ u.path # << >>
            /\ u.current_path_index < Len(u.path)
            /\ (u.recomputed /\ u.path_nodes = << >>) =>
                  u.path = << <<player.cx, player.cy>> >>

\* the search found nothing and the star heads for the player himself
C13_Witness ==
    /\ AfterStarPass
    /\ enemies["ps"].after_update.chasing_player
    /\ enemies["ps"].after_update.recomputed
    /\ enemies["ps"].after_update.path_nodes = << >>
    /\ enemies["ps"].after_update.path = << <<player.cx, player.cy>> >>
    /\ tick >= 2

\* C18: no FierceTooth and no PinkStar damages the player by contact while
\* its post_attack_recovery flag is set.
C18_NoDamageInRecovery ==
    \A i \in ContactCalls({"ft", "ps"}) : ~calls[i].post_attack_recovery

\* C19: while a PinkStar recovers from an attack it is not chasing at the
\* end of its update, and 350 updates after the attack the recovery is over.
C19_RecoveryEndsAfter350 ==
    AfterStarPass =>
        /\ enemies["ps"].post_attack_recovery =>
              ~enemies["ps"].after_update.chasing_player
        /\ enemies["ps"].post_attack_recovery =>
              enemies["ps"].recovery_age < attack_recovery_duration("ps")

\* C31: whenever handle_movement runs for a FierceTooth whose hit_anim_timer
\* is above 0 or whose post_attack_recovery is true, the enemy's speed is 0
\* and its horizontal velocity is 0
C31_FrozenToothStandsStill ==
    (tooth.k = "ft" /\ tooth.age > 0
       /\ (tooth.at_move.hit_anim_timer > 0 \/ tooth.at_move.post_attack_recovery))
    => (tooth.at_move.speed = 0 /\ tooth.at_move.velocity_x = 0)

\* a pass whose handle_movement found the enemy in hit-stun or in recovery
C31_Witness ==
    /\ tooth.k = "ft" /\ tooth.age > 0
    /\ (tooth.at_move.hit_anim_timer > 0 \/ tooth.at_move.post_attack_recovery)

\* the reversals that follow the player: the turn towards a player that went
\* behind, the recheck turn and the turn towards a touching player
TrackingTurns ==
    {i \in 1 .. Len(tooth.turns) :
        tooth.turns[i].kind \in {"behind", "recheck", "collision"}}

\* C32: a smartmode FierceTooth makes a player-tracking reversal only when
\* turn_cooldown is 0
C32_TrackingTurnNeedsCooldownZero ==
    tooth.k = "ft" => \A i \in TrackingTurns : tooth.turns[i].turn_cooldown = 0

\* a pass in which the enemy made a player-tracking reversal
C32_Witness ==
    tooth.k = "ft" /\ TrackingTurns # {}

\* C33: the movement step that follows the one in which a chasing PinkStar
\* reached the last waypoint of its path goes through the direct-pursuit
\* branch of handle_movement, towards the player's centre
C33_DirectPursuitAfterLastWaypoint ==
    LET e == enemies["ps"]
    IN  (pc = "player" /\ e.in_group /\ e.alive /\ e.path_ended_before
           /\ e.after_update.chasing_player)
        => MovementBranch(e.after_update) = "direct"

\* a PinkStar that reached the last waypoint in one pass and still chases
\* in the next
C33_Witness ==
    LET e == enemies["ps"]
    IN  /\ pc = "player" /\ e.in_group /\ e.alive /\ e.path_ended_before
        /\ e.after_update.chasing_player

(***************************************************************************)
(* Pathfinding (SpecAstar): the shape and the cost of a returned path, and *)
(* the direction of the links.                                             *)
(***************************************************************************)
Connections == get_purple_rect_connections(search.purple_rects)

PathReturned == search.phase = "returned" /\ search.result # "None"

\* C34: a path astar_pathfinding returns starts at start_pos, ends at
\* goal_pos, holds no node twice, and each of its steps is a link of the
\* graph of get_purple_rect_connections
C34_PathIsSimpleWalk ==
    PathReturned =>
        LET path == search.result
        IN  /\ path[1] = search.start_pos
            /\ path[Len(path)] = search.goal_pos
            /\ \A i, j \in 1 .. Len(path) : path[i] = path[j] => i = j
            /\ \A i \in 1 .. Len(path) - 1 :
                   path[i + 1] \in neighbours(Connections, path[i])

\* a returned path of three nodes or more
C34_Witness ==
    PathReturned /\ Len(search.result) >= 3

\* the cost of a path as astar_pathfinding counts it
RECURSIVE PathCost(_)
PathCost(path) ==
    IF Len(path) < 2 THEN 0
    ELSE move_cost(path[1], path[2]) + PathCost(Tail(path))

\* larger than the cost of any path over MaxPurple waypoints
NoPath == 2 * MaxPurple + 1

\* the least cost of a walk of at most k links from a to b
RECURSIVE LeastCost(_, _, _, _)
LeastCost(connections, a, b, k) ==
    IF a = b THEN 0
    ELSE IF k = 0 \/ neighbours(connections, a) = {} THEN NoPath
    ELSE SetMin({ LET rest == LeastCost(connections, n, b, k - 1)
                  IN  IF rest >= NoPath THEN NoPath
                      ELSE move_cost(a, n) + rest :
                  n \in neighbours(connections, a) })

\* C35: when the goal can be reached, astar_pathfinding returns a path of
\* least cost (1 for a level link, 2 for a jump)
C35_PathIsCheapest ==
    (search.phase = "returned" /\ GoalReachable) =>
        /\ search.result # "None"
        /\ PathCost(search.result)
              = LeastCost(Connections, search.start_pos, search.goal_pos,
                          MaxPurple - 1)

\* the waypoints a walk from pos can end at
Below(connections, pos) ==
    { other \in ReachableFrom(connections, {pos}) : other[2] > pos[2] }

\* C36: level links go both ways; a jump link from A to B has B strictly above
\* A and no link back from B to A, and no walk ends lower than it started
C36_JumpLinksPointUp ==
    search.phase # "idle" =>
        \A a \in DOMAIN Connections :
           /\ \A b \in Connections[a] :
                 IF move_cost(a, b) = 1
                 THEN a \in Connections[b]
                 ELSE b[2] < a[2] /\ a \notin Connections[b]
           /\ Below(Connections, a) = {}

\* a graph with a jump link, and a path returned over one
C36_Witness ==
    /\ PathReturned
    /\ \E i \in 1 .. Len(search.result) - 1 :
          move_cost(search.result[i], search.result[i + 1]) = 2

\* C37: at the end of a tick an enemy's on_ground is true only if its
\* rect.bottom lies on the top of an obstacle beneath it, and no jump starts
\* with the enemy in the air
C37_GroundedMeansSupported ==
    (body.kind \in {"enemy", "ft", "ps"} /\ body.moved) =>
        /\ body.on_ground => Supported(body)
        /\ ~body.air_jump

\* the screen flags that are set
FlagsSet == {f \in DOMAIN screens : screens[f]}

\* C38: at the end of every iteration of main's loop exactly one of the seven
\* screen flags is true
C38_ExactlyOneScreen ==
    pc = "top" => Cardinality(FlagsSet) = 1

\* the value of pc at which main runs the pass of each species
PassOf(k) == IF k = "ft" THEN "top" ELSE k

\* the pass of species k that finds its enemy dead
DeadPass(k) ==
    /\ ActiveScreen(screens) = "playing_level"
    /\ pc = PassOf(k) /\ pc' # pc
    /\ enemies[k].in_group /\ ~enemies[k].alive

\* C39: the first pass that finds an enemy dead, one tick after the update
\* that cleared its alive flag, leaves the enemy's id in
\* level_info.killed_enemy_ids, and the save of a tick stores the ids
\* gathered so far whatever button started the play
C39_KillIsRecorded ==
    [][/\ \A k \in Species :
             DeadPass(k) => /\ level_info'.has_killed_ids
                            /\ k \in level_info'.killed_enemy_ids
       /\ (pc = "save" /\ pc' = "events") =>
             progress'.killed_enemy_ids = level_info.killed_enemy_ids]_vars

\* C40: once stamina has been cut to 0 the player does not sprint until
\* stamina is back at SPRINT_THRESHOLD, and a sprint starts only in a tick
\* whose stamina is at least SPRINT_THRESHOLD
C40_SprintNeedsThreshold ==
    body.kind = "sprinter" =>
        /\ body.drained => ~body.is_sprinting
        /\ (body.is_sprinting /\ ~body.was_sprinting) =>
               body.stamina >= SPRINT_THRESHOLD

\* the player holds shift and a direction key while stamina, cut to 0
\* before, is still under the threshold
C40_Witness ==
    /\ body.kind = "sprinter"
    /\ body.drained /\ body.asked
    /\ body.stamina > 0 /\ body.stamina < SPRINT_THRESHOLD

====
